---- MODULE Spec2Model ----
(***************************************************************************)
(* Release-channel update coordinator of SSW.YakShaver.Desktop.            *)
(*                                                                         *)
(* UpdaterService (src/src/backend/services/updater/updater-service.ts),   *)
(* its IPC handlers (src/src/backend/ipc/updater-handlers.ts) and the      *)
(* release listing of ReleaseChannelIPCHandlers (src/unnamed/part_005).    *)
(*                                                                         *)
(* Every handler invocation is a process.  JavaScript runs one job at a    *)
(* time: a process runs from one await to the next without interruption,   *)
(* and at every await any other process may run.  `active` names the       *)
(* process that is inside a synchronous section that spans a call into     *)
(* another async method; NoProc means the event loop is free.              *)
(*                                                                         *)
(* Strings the code takes apart (tags, channel names) are sequences of     *)
(* one-character strings.  Time is counted in minutes.                     *)
(***************************************************************************)
EXTENDS Integers, Sequences, FiniteSets, TLC

\* ------------------------------------------------------------------ bounds

\* Handler invocations that may be in progress at once.
NumProcs == 2

\* Handler invocations started in one run.
MaxCalls == 2

\* The last instant at which anything happens (minutes).
MaxNow == 5

\* The longest suffix of a generated tag.
MaxSuffix == 2

\* --------------------------------------------------------------- constants

\* updater-service.ts:27, 5 * 60 * 1000 ms, in minutes.
CACHE_DURATION_MS == 5

\* part_005:57, 5 * 60 * 1000 ms, in minutes.
RELEASES_CACHE_TTL == 5

\* ----------------------------------------------------------------- strings

LATEST == <<"l", "a", "t", "e", "s", "t">>

\* app.getVersion(): the running version.
AppVersion == <<"1">>

\* Tags the registry may hold.
TagV1 == <<"v", "1">>
TagPr5 == <<"p", "r", "-", "5">>
TagBranchX == <<"b", "r", "a", "n", "c", "h", "-", "x">>

\* A tag the registry does not hold.
TagPr7 == <<"p", "r", "-", "7">>

PrPrefix == <<"p", "r", "-">>
BranchPrefix == <<"b", "r", "a", "n", "c", "h", "-">>

Digits == <<"0", "1", "2", "3", "4", "5", "6", "7", "8", "9">>

IsDigit(c) == \E i \in 1..10 : Digits[i] = c

DigitValue(c) == (CHOOSE i \in 1..10 : Digits[i] = c) - 1

\* String.prototype.startsWith
StartsWith(s, pre) ==
    /\ Len(s) >= Len(pre)
    /\ SubSeq(s, 1, Len(pre)) = pre

\* s.split("-")[1]: the text between the first and the second "-"
\* (to the end when there is no second one).  Only used on strings that
\* start with "pr-", so a first "-" exists.
RECURSIVE UpToDash(_)
UpToDash(s) ==
    IF s = <<>> \/ Head(s) = "-" THEN <<>>
    ELSE <<Head(s)>> \o UpToDash(Tail(s))

RECURSIVE AfterFirstDash(_)
AfterFirstDash(s) ==
    IF s = <<>> THEN <<>>
    ELSE IF Head(s) = "-" THEN Tail(s)
    ELSE AfterFirstDash(Tail(s))

SplitDash1(s) == UpToDash(AfterFirstDash(s))

\* Number.parseInt(s, 10): leading blanks skipped, an optional sign, then
\* the longest run of digits; NaN when that run is empty.
NaN == -1

RECURSIVE SkipBlanks(_)
SkipBlanks(s) ==
    IF s # <<>> /\ Head(s) = " " THEN SkipBlanks(Tail(s)) ELSE s

RECURSIVE DigitRun(_)
DigitRun(s) ==
    IF s # <<>> /\ IsDigit(Head(s)) THEN <<Head(s)>> \o DigitRun(Tail(s))
    ELSE <<>>

RECURSIVE DigitsToNat(_, _)
DigitsToNat(ds, acc) ==
    IF ds = <<>> THEN acc
    ELSE DigitsToNat(Tail(ds), acc * 10 + DigitValue(Head(ds)))

\* Mutant: only the first digit is read.
ParseIntFirstDigit(str) ==
    LET s == SkipBlanks(str)
        u == IF s # <<>> /\ Head(s) = "+" THEN Tail(s) ELSE s
        ds == DigitRun(u)
    IN  IF ds = <<>> THEN NaN ELSE DigitValue(Head(ds))

ParseInt(str) ==
    LET s == SkipBlanks(str)
        u == IF s # <<>> /\ Head(s) = "+" THEN Tail(s) ELSE s
        ds == DigitRun(u)
    IN  IF ds = <<>> THEN NaN ELSE DigitsToNat(ds, 0)

\* A number in a template literal: its decimal digits.
RECURSIVE NatToDigits(_)
NatToDigits(n) ==
    IF n < 10 THEN <<Digits[n + 1]>>
    ELSE NatToDigits(n \div 10) \o <<Digits[(n % 10) + 1]>>

\* String.prototype.replace with a string pattern: the first occurrence.
RECURSIVE ReplaceFirst(_, _, _)
ReplaceFirst(s, pat, by) ==
    IF StartsWith(s, pat) THEN by \o SubSeq(s, Len(pat) + 1, Len(s))
    ELSE IF s = <<>> THEN <<>>
    ELSE <<Head(s)>> \o ReplaceFirst(Tail(s), pat, by)

\* ---------------------------------------------------------------- registry

\* A release as the registry returns it (tag_name, prerelease, name).
Release(tag, pre) == [tag_name |-> tag, prerelease |-> pre, name |-> <<>>]

\* release.name || "Untitled"
NameOrUntitled(r) == IF r.name = <<>> THEN <<"Untitled">> ELSE r.name

\* Bodies the releases listing may return, newest first.
Listings ==
    { <<Release(TagBranchX, TRUE), Release(TagPr5, TRUE), Release(TagV1, FALSE)>> }

\* Tags of every shape, for the classification: a prefix followed by up
\* to MaxSuffix characters.
TagAlphabet == {"1", "2", "a", "-"}
TagPrefixes == {PrPrefix, BranchPrefix, <<"v">>}
TagSuffixes == UNION {[1..n -> TagAlphabet] : n \in 0..MaxSuffix}
TaggedReleases ==
    {Release(pre \o suf, b) : pre \in TagPrefixes, suf \in TagSuffixes,
                              b \in BOOLEAN}
KnownReleases ==
    {Release(TagPr5, TRUE), Release(TagBranchX, TRUE), Release(TagV1, FALSE)}

\* Listings of two releases, one of them of any shape, in both orders.
TaggedListings ==
    {<<r, k>> : r \in TaggedReleases, k \in KnownReleases}
        \cup {<<k, r>> : r \in TaggedReleases, k \in KnownReleases}

\* Tags getLatestRelease may return.
StableTags == {TagV1}

\* The tags a release of the running version may carry.
RunningTags == {<<"v">> \o AppVersion, AppVersion}

NoPr == -2

\* The BranchInfo pushed for the latest stable release (lines 97-103).
ReleaseBranch(tag) ==
    [name |-> tag, displayName |-> <<"Latest Release (">> \o tag \o <<")">>,
     type |-> "release", prNumber |-> NoPr, releaseTag |-> tag]

\* The BranchInfo entries one listed release contributes (lines 121-144).
BranchesOfRelease(r) ==
    IF r.prerelease /\ StartsWith(r.tag_name, PrPrefix)
    THEN LET prNumber == ParseInt(SplitDash1(r.tag_name))
         IN  IF prNumber # NaN
             THEN << [name |-> r.tag_name,
                      displayName |-> <<"PR #">> \o NatToDigits(prNumber)
                                        \o <<": ">> \o NameOrUntitled(r),
                      type |-> "pr",
                      prNumber |-> prNumber, releaseTag |-> r.tag_name] >>
             ELSE <<>>
    ELSE IF r.prerelease /\ StartsWith(r.tag_name, BranchPrefix)
    THEN LET branchName == ReplaceFirst(r.tag_name, BranchPrefix, <<>>)
         IN  << [name |-> r.tag_name,
                 displayName |-> <<"Branch: ">> \o branchName,
                 type |-> "branch",
                 prNumber |-> NoPr, releaseTag |-> r.tag_name] >>
    ELSE <<>>

RECURSIVE BranchesOfReleases(_)
BranchesOfReleases(rs) ==
    IF rs = <<>> THEN <<>>
    ELSE BranchesOfRelease(Head(rs)) \o BranchesOfReleases(Tail(rs))

\* branches.find((b) => b.name === channel): the first match, or NoBranch.
NoBranch ==
    [name |-> <<>>, displayName |-> <<>>, type |-> "none", prNumber |-> NoPr,
     releaseTag |-> <<>>]

\* Mutant: without a match the first entry is taken.
FindBranchOrFirst(branches, channel) ==
    IF \E i \in 1..Len(branches) : branches[i].name = channel
    THEN branches[CHOOSE i \in 1..Len(branches) : branches[i].name = channel]
    ELSE IF branches # <<>> THEN branches[1]
    ELSE NoBranch

FindBranch(branches, channel) ==
    IF \E i \in 1..Len(branches) : branches[i].name = channel
    THEN branches[CHOOSE i \in 1..Len(branches) :
                     /\ branches[i].name = channel
                     /\ \A j \in 1..(i - 1) : branches[j].name # channel]
    ELSE NoBranch

\* ------------------------------------------------------------------- state

Procs == 1..NumProcs

\* `active` when the event loop is free.
NoProc == {}

\* Channels a caller may pass to checkForUpdates / switchChannel.
Channels == {LATEST, TagPr5, TagPr7}

NoCache == [present |-> FALSE]
NoCheck == [present |-> FALSE]
NoInfo == [present |-> FALSE]
NoTag == <<>>

\* release-channel-storage.ts:13-15: DEFAULT_CHANNEL.
DEFAULT_CHANNEL == [type |-> "latest", tag |-> NoTag]

\* this.cache === null (release-channel-storage.ts:19).
NoChannel == [type |-> "null", tag |-> NoTag]

\* No release-channel.enc in the storage directory.
NoRecord == <<>>

\* Since installation: whether setChannel was called, the channel of the
\* last setChannel that was written, and whether the process restarted;
\* since the start of the process: the channel of the last
\* checkForUpdates that succeeded, and whether a write of the record
\* has failed.
NoHistory ==
    [setCalled |-> FALSE, saved |-> NoChannel, restarted |-> FALSE,
     selected |-> LATEST, saveFailed |-> FALSE]

\* A ReleaseChannel pinned to a tag.
TagChannel(tag) == [type |-> "tag", tag |-> tag]

\* The engine as the two constructors leave it.  The UpdaterService
\* constructor sets autoDownload = false (lines 54-62), the
\* ReleaseChannelIPCHandlers constructor sets it to true (part_005:85);
\* the later of the two decides.  allowDowngrade starts false.
\* `progress` is the number of listeners of download-progress.
EngineAfterConstruction(autoDownload) ==
    [feed |-> NoTag, autoDownload |-> autoDownload, allowDowngrade |-> FALSE,
     downloading |-> FALSE, downloaded |-> FALSE, installCalls |-> 0,
     quit |-> FALSE, progress |-> 0]

VARIABLES
    now,              \* Date.now(), minutes
    currentChannel,   \* UpdaterService.currentChannel
    branchesCache,    \* UpdaterService.branchesCache
    lastUpdateCheck,  \* UpdaterService.lastUpdateCheck
    engine,           \* the shared autoUpdater
    releasesCache,    \* ReleaseChannelIPCHandlers.releasesCache
    store,            \* ReleaseChannelStorage.cache
    disk,             \* the record release-channel.enc
    history,          \* what has happened to the store since installation
    proc,             \* the handler invocations
    active,           \* the process inside a synchronous section
    calls             \* handler invocations started

vars == <<now, currentChannel, branchesCache, lastUpdateCheck, engine,
          releasesCache, store, disk, history, proc, active, calls>>

\* A handler invocation: the operation, where it is, the labels its
\* callers resume at, and its local variables.  `asked` tells that the
\* user asked for a refresh (the page's Refresh button).  `sent` counts the
\* requests it has sent to the registry; `needed` records whether
\* `latestErr` records the error getLatestRelease answered with,
\* downloadUpdate was called without a check for the current channel,
\* `checked` how far the check it runs itself has come, `downloads` how
\* often it has invoked the engine's downloadUpdate(), `prior` the
\* channel getChannel would have returned when setChannel was called,
\* `seen` the branches cache when the timer fired,
\* `listed` the
\* releases the registry listed for it.
Idle ==
    [op |-> "idle", pc |-> "idle", stack |-> <<>>, channel |-> NoTag,
     asked |-> FALSE, force |-> FALSE, latest |-> NoTag, latestErr |-> "none", tag |-> NoTag,
     apiErr |-> "none",
     rl |-> "none", sent |-> 0, needed |-> FALSE, checked |-> "no",
     downloads |-> 0, prior |-> NoChannel, seen |-> NoCache,
     etag |-> "none", resp |-> "none", listed |-> <<>>, val |-> <<>>,
     err |-> "none"]

Init ==
    /\ now = 0
    /\ currentChannel = LATEST
    /\ branchesCache = NoCache
    /\ lastUpdateCheck = NoCheck
    /\ engine \in {EngineAfterConstruction(auto) : auto \in BOOLEAN}
    /\ releasesCache = NoCache
    /\ store = NoChannel
    /\ disk = NoRecord
    /\ history = NoHistory
    /\ proc = [p \in Procs |-> Idle]
    /\ active = NoProc
    /\ calls = 0

\* A process may take a step that resumes it from an await.
CanResume(p, label) ==
    /\ ~engine.quit
    /\ active = NoProc
    /\ proc[p].pc = label

\* A process continues the synchronous section it is in.
CanContinue(p, label) ==
    /\ ~engine.quit
    /\ active = {p}
    /\ proc[p].pc = label

\* An async method returns `v` (or throws `e`): the awaiting caller, if
\* any, resumes later at the label on top of the stack.
Settled(r, v, e) ==
    IF r.stack = <<>>
    THEN [r EXCEPT !.pc = "done", !.val = v, !.err = e, !.channel = NoTag,
                   !.latest = NoTag, !.tag = NoTag]
    ELSE [r EXCEPT !.pc = Head(r.stack), !.stack = Tail(r.stack),
                   !.val = v, !.err = e]

Returns(r, v) == Settled(r, v, "none")
Throws(r, e) == Settled(r, <<>>, e)

\* ------------------------------------------ UpdaterService.getAvailableBranches

\* Mutant: the entry expires a minute early.
BranchesCacheHitShortTtl(force) ==
    /\ ~force
    /\ branchesCache.present
    /\ now - branchesCache.timestamp < CACHE_DURATION_MS - 1

\* Lines 79-85: the cache answers the call.
BranchesCacheHit(force) ==
    /\ ~force
    /\ branchesCache.present
    /\ now - branchesCache.timestamp < CACHE_DURATION_MS

\* Errors of the releases listing.
ListErrors == {"rate limit", "forbidden", "unavailable"}

\* Line 158: error?.status === 403 && error?.message?.includes("rate limit")
IsRateLimitError(e) == e = "rate limit"

\* Lines 76-92: entry.  A hit returns the cached list; a miss sends
\* getLatestRelease and awaits it.
GabEnter(p) ==
    /\ CanContinue(p, "gab_enter")
    /\ IF BranchesCacheHit(proc[p].force)
       THEN proc' = [proc EXCEPT ![p] = Returns(@, branchesCache.data)]
       ELSE proc' = [proc EXCEPT ![p].pc = "gab_await_latest",
                                 ![p].latestErr = "none",
                                 ![p].apiErr = "none",
                                 ![p].rl = "none",
                                 ![p].sent = @ + 1]
    /\ active' = NoProc
    /\ UNCHANGED <<store, disk, history, now, currentChannel, branchesCache, lastUpdateCheck,
                   engine, releasesCache, calls>>

\* Mutant: the list is stored before the release entry is in it.
BuildBranchesListingOnly(latest, releases) == BranchesOfReleases(releases)

\* Lines 88-144: the list built from the two answers.
BuildBranches(latest, releases) ==
    (IF latest # NoTag THEN <<ReleaseBranch(latest)>> ELSE <<>>)
        \o BranchesOfReleases(releases)

\* Mutant: only an entry within its TTL is used as the fallback.
GabErrorOutcomeFreshOnly(r) ==
    IF branchesCache.present
         /\ now - branchesCache.timestamp < CACHE_DURATION_MS
    THEN Returns(r, branchesCache.data)
    ELSE Throws(r, "fetch failed")

\* Lines 185-191: the fallback for an error that is not a rate limit.
GabErrorOutcome(r) ==
    IF branchesCache.present
    THEN Returns(r, branchesCache.data)
    ELSE Throws(r, "fetch failed")

\* Errors of the latest-release lookup: 404 when the repository has no
\* stable release, 403 when the quota is used up.
LatestErrors == {"not found", "rate limit"}

\* Mutant: a 404 of the lookup leaves the inner try.
LatestErrorSwallowedUnlessNotFound(e) == e # "not found"

\* Lines 109-111: the inner catch takes every error of the lookup, logs
\* it and goes on.
LatestErrorSwallowed(e) == e \in LatestErrors

\* Lines 92-118: getLatestRelease answers a tag or an error, which the
\* inner catch swallows; then listReleases is sent and awaited.
GabLatestFrom(p, tags, errors) ==
    /\ CanResume(p, "gab_await_latest")
    /\ \/ \E resp \in tags :
            /\ proc' = [proc EXCEPT ![p].pc = "gab_await_list",
                                    ![p].latest = resp,
                                    ![p].sent = @ + 1]
            /\ currentChannel' =
                 IF currentChannel = LATEST THEN resp ELSE currentChannel
       \/ \E e \in errors :
            /\ IF LatestErrorSwallowed(e)
               THEN proc' = [proc EXCEPT ![p].pc = "gab_await_list",
                                         ![p].latest = NoTag,
                                         ![p].latestErr = e,
                                         ![p].sent = @ + 1]
               ELSE proc' = [proc EXCEPT
                               ![p] = GabErrorOutcome(
                                          [@ EXCEPT !.latestErr = e,
                                                    !.apiErr = e])]
            /\ UNCHANGED currentChannel
    /\ UNCHANGED <<store, disk, history, now, branchesCache, lastUpdateCheck, engine,
                   releasesCache, active, calls>>

\* The lookup in a repository that may have no stable release.
GabLatest(p) == GabLatestFrom(p, StableTags, {"not found"})

\* The same with every error of the lookup.
GabLatestAnyError(p) == GabLatestFrom(p, StableTags, LatestErrors)

\* The same when the latest stable release is the running version,
\* tagged with or without the leading "v".
GabLatestRunning(p) == GabLatestFrom(p, RunningTags, {"not found"})

\* Mutant: the slot is written whether or not the listing answered, as
\* it would be were the assignment outside the try.
CacheAfterListAlways(answered, branches) ==
    [present |-> TRUE, data |-> branches, timestamp |-> now]

\* Lines 146-150: the assignment of the slot is the last statement but
\* one of the try: it is reached when the listing has answered and is
\* skipped when a request has thrown.
CacheAfterList(answered, branches) ==
    IF answered
    THEN [present |-> TRUE, data |-> branches, timestamp |-> now]
    ELSE branchesCache

\* Lines 114-192: listReleases answers.  Success stores and returns the
\* list; a rate-limit error asks for the rate-limit status; any other
\* error falls back to the cache.
GabListFrom(p, listings) ==
    /\ CanResume(p, "gab_await_list")
    /\ \/ \E releases \in listings :
            LET branches == BuildBranches(proc[p].latest, releases)
            IN  /\ branchesCache' = CacheAfterList(TRUE, branches)
                /\ proc' = [proc EXCEPT
                              ![p] = Returns([@ EXCEPT !.listed = releases],
                                             branches)]
       \/ \E e \in ListErrors :
            /\ branchesCache' = CacheAfterList(FALSE, <<>>)
            /\ IF IsRateLimitError(e)
               THEN proc' = [proc EXCEPT ![p].pc = "gab_await_rl",
                                         ![p].apiErr = e,
                                         ![p].sent = @ + 1]
               ELSE proc' = [proc EXCEPT
                               ![p] = GabErrorOutcome([@ EXCEPT !.apiErr = e])]
    /\ UNCHANGED <<store, disk, history, now, currentChannel, lastUpdateCheck, engine,
                   releasesCache, active, calls>>

GabList(p) == GabListFrom(p, Listings)

\* The same with a listing that holds a tag of any shape.
GabListTagged(p) == GabListFrom(p, TaggedListings)

\* The same when the repository holds a branch build and a stable
\* release.
GabListBranch(p) ==
    GabListFrom(p, {<<Release(TagBranchX, TRUE), Release(TagV1, FALSE)>>})

\* Lines 160-170: what the try block throws.  When rateLimit.get()
\* answers, the error that tells the time to the reset and the remaining
\* requests is thrown inside the try; when it fails, its own error is.
RateLimitTryThrows(resp) ==
    IF resp = "ok" THEN "rate limit with quota" ELSE "status unavailable"

\* Mutant: the error with the quota leaves the method, as it would were
\* it thrown outside the try.
GabRateLimitOutcomeRethrow(r, thrown) ==
    IF thrown = "rate limit with quota" THEN Throws(r, thrown)
    ELSE IF branchesCache.present THEN Returns(r, branchesCache.data)
    ELSE Throws(r, "rate limit")

\* Lines 171-182: the catch of that try receives either error, does not
\* look at it, and falls back to the cache or throws the plain
\* rate-limit error.
GabRateLimitOutcome(r, thrown) ==
    IF branchesCache.present
    THEN Returns(r, branchesCache.data)
    ELSE Throws(r, "rate limit")

\* Lines 161-182: rateLimit.get() answers or fails.
GabRateLimit(p) ==
    /\ CanResume(p, "gab_await_rl")
    /\ \E resp \in {"ok", "failed"} :
         proc' = [proc EXCEPT ![p] = GabRateLimitOutcome([@ EXCEPT !.rl = resp],
                                                        RateLimitTryThrows(resp))]
    /\ UNCHANGED <<store, disk, history, now, currentChannel, branchesCache, lastUpdateCheck,
                   engine, releasesCache, active, calls>>

\* ------------------------------------------- UpdaterService.checkForUpdates

\* Lines 238-243 and 250-255: the UpdateInfo built from the release.
InfoOfRelease(tag) == [present |-> TRUE, version |-> tag]

\* The UpdateInfo the delivery engine reports for its feed.
NewStable == <<"v", "2">>

InfoOfEngine ==
    [present |-> TRUE,
     version |-> IF engine.feed = NoTag THEN NewStable ELSE engine.feed]

\* Answers of autoUpdater.checkForUpdates(): a result with updateInfo, a
\* result without, or an exception.
EngineCheckAnswers == {"update", "nothing", "throws"}

\* Mutant: an event runs the listeners of one call only, the one that
\* registered first.
WaitingFirstOnly ==
    {q \in Procs : /\ proc[q].pc = "dl_await"
                   /\ \A r \in 1..(q - 1) : proc[r].pc # "dl_await"}

\* Lines 322-339: the calls of downloadUpdate that wait for an event of
\* the engine; each has its own once listeners, and an event runs them
\* all.
Waiting == {q \in Procs : proc[q].pc = "dl_await"}

\* The engine after it has answered a check: with autoDownload set, an
\* update that was found starts downloading at once; the error event of
\* a check that failed runs the error listeners of the waiting
\* downloads, which remove their progress listeners (line 336).
EngineAfterCheck(answer) ==
    IF answer = "update" /\ engine.autoDownload
    THEN [engine EXCEPT !.downloading = TRUE]
    ELSE IF answer = "throws"
    THEN [engine EXCEPT !.progress = @ - Cardinality(Waiting)]
    ELSE engine

\* Lines 334-339: the listener that downloadUpdate registers with
\* once("error") is on the engine the checks use.  When the engine's
\* checkForUpdates() fails the engine emits error: every downloadUpdate
\* that waits for the engine is rejected with the error of the check.
\* The download goes on in the engine.
CheckErrorEmitted(answer, pr) ==
    IF answer = "throws"
    THEN [q \in Procs |->
            IF pr[q].pc = "dl_await"
            THEN Settled(pr[q], <<>>, "check error")
            ELSE pr[q]]
    ELSE pr

\* Lines 280-284: the catch of checkForUpdates.
CheckFails(p, e) ==
    /\ lastUpdateCheck' = NoCheck
    /\ proc' = [proc EXCEPT ![p] = Throws(@, e)]

\* Lines 198-204 and 267-274: entry.  The channel becomes the current one;
\* a tag channel asks for the branch list, the latest channel resets the
\* feed and asks the delivery engine.
CheckEnter(p) ==
    /\ CanContinue(p, "chk_enter")
    /\ currentChannel' = proc[p].channel
    /\ IF proc[p].channel # LATEST
       THEN /\ proc' = [proc EXCEPT ![p].pc = "gab_enter",
                                    ![p].force = FALSE,
                                    ![p].stack = <<"chk_after_gab">> \o @]
            /\ UNCHANGED <<store, disk, history, engine, active>>
       ELSE /\ proc' = [proc EXCEPT ![p].pc = "chk_await_engine_latest"]
            /\ engine' = [engine EXCEPT !.feed = NoTag]
            /\ active' = NoProc
    /\ UNCHANGED <<store, disk, history, now, branchesCache, lastUpdateCheck, releasesCache, calls>>

\* Lines 204-216: the branch list is back; the channel is looked up in it
\* and its release is requested.
CheckAfterBranches(p) ==
    /\ CanResume(p, "chk_after_gab")
    /\ IF proc[p].err # "none"
       THEN CheckFails(p, proc[p].err)
       ELSE LET targetBranch == FindBranch(proc[p].val, proc[p].channel)
            IN  IF targetBranch = NoBranch \/ targetBranch.releaseTag = NoTag
                THEN CheckFails(p, "channel not found")
                ELSE /\ proc' = [proc EXCEPT ![p].pc = "chk_await_release",
                                             ![p].tag = targetBranch.releaseTag,
                                             ![p].val = <<>>,
                                             ![p].sent = @ + 1]
                     /\ UNCHANGED lastUpdateCheck
    /\ UNCHANGED <<store, disk, history, now, currentChannel, branchesCache, engine, releasesCache,
                   active, calls>>

\* Mutant: only the tag with the leading "v" is the running version.
IsRunningVersionPrefixed(tag) == tag = <<"v">> \o AppVersion

\* Line 220: the release is the running version.
IsRunningVersion(tag) == tag = <<"v">> \o AppVersion \/ tag = AppVersion

\* Lines 212-264: getReleaseByTag answers.  A release other than the
\* running version points the feed at its tag and asks the engine.
CheckRelease(p) ==
    /\ CanResume(p, "chk_await_release")
    /\ \/ /\ CheckFails(p, "unavailable")
          /\ UNCHANGED <<engine, history>>
       \/ IF ~IsRunningVersion(proc[p].tag)
          THEN /\ engine' = [engine EXCEPT !.feed = proc[p].tag]
               /\ proc' = [proc EXCEPT ![p].pc = "chk_await_engine_tag"]
               /\ UNCHANGED <<lastUpdateCheck, history>>
          ELSE /\ lastUpdateCheck' = [present |-> TRUE,
                                      channel |-> proc[p].channel,
                                      updateInfo |-> NoInfo,
                                      engineChecked |-> FALSE]
               /\ history' = [history EXCEPT !.selected = proc[p].channel]
               /\ proc' = [proc EXCEPT ![p] = Returns(@, NoInfo)]
               /\ UNCHANGED engine
    /\ UNCHANGED <<store, disk, now, currentChannel, branchesCache, releasesCache,
                   active, calls>>

\* Lines 231-260: the engine answers the check of a tag channel.
\* `engineChecked` is not a field of the program: it records whether the
\* engine's checkForUpdates() returned.  The
\* engine's updateInfo is used when there is one; without one, and when
\* the engine throws, the UpdateInfo is built from the release.
CheckEngineTag(p) ==
    /\ CanResume(p, "chk_await_engine_tag")
    /\ \E answer \in EngineCheckAnswers :
         LET info == IF answer = "update" THEN InfoOfEngine
                     ELSE InfoOfRelease(proc[p].tag)
         IN  /\ lastUpdateCheck' = [present |-> TRUE,
                                    channel |-> proc[p].channel,
                                    updateInfo |-> info,
                                    engineChecked |-> answer # "throws"]
             /\ history' = [history EXCEPT !.selected = proc[p].channel]
             /\ proc' = CheckErrorEmitted(
                           answer, [proc EXCEPT ![p] = Returns(@, info)])
             /\ engine' = EngineAfterCheck(answer)
    /\ UNCHANGED <<store, disk, now, currentChannel, branchesCache, releasesCache,
                   active, calls>>

\* Lines 274-284: the engine answers the check of the latest channel.
CheckEngineLatest(p) ==
    /\ CanResume(p, "chk_await_engine_latest")
    /\ \E answer \in EngineCheckAnswers :
         /\ engine' = EngineAfterCheck(answer)
         /\ IF answer = "throws"
            THEN /\ lastUpdateCheck' = NoCheck
                 /\ proc' = CheckErrorEmitted(
                               answer,
                               [proc EXCEPT ![p] = Throws(@, "engine error")])
                 /\ UNCHANGED history
            ELSE LET info == IF answer = "update" THEN InfoOfEngine ELSE NoInfo
                 IN  /\ lastUpdateCheck' = [present |-> TRUE,
                                            channel |-> proc[p].channel,
                                            updateInfo |-> info,
                                            engineChecked |-> TRUE]
                     /\ history' = [history EXCEPT !.selected = proc[p].channel]
                     /\ proc' = [proc EXCEPT ![p] = Returns(@, info)]
    /\ UNCHANGED <<store, disk, now, currentChannel, branchesCache, releasesCache,
                   active, calls>>

\* -------------------------------------------- UpdaterService.downloadUpdate

\* Mutant: the missing check is forgotten; only a check for another
\* channel counts.
NeedsCheckOtherChannelOnly ==
    /\ lastUpdateCheck.present
    /\ lastUpdateCheck.channel # currentChannel

\* Line 294: no check is recorded for the current channel.
NeedsCheck ==
    \/ ~lastUpdateCheck.present
    \/ lastUpdateCheck.channel # currentChannel

\* Line 304: !this.lastUpdateCheck?.updateInfo
NothingToDownload ==
    \/ ~lastUpdateCheck.present
    \/ ~lastUpdateCheck.updateInfo.present

\* Lines 303-320, from the verification on: nothing to download throws; a
\* tag channel asks for the branch list; the latest channel goes on to
\* the download.
DownloadVerify(p, checked) ==
    IF NothingToDownload
    THEN /\ proc' = [proc EXCEPT
                       ![p] = Throws([@ EXCEPT !.checked = checked],
                                     "no update available")]
         /\ active' = NoProc
    ELSE IF currentChannel # LATEST
    THEN /\ proc' = [proc EXCEPT ![p].pc = "gab_enter",
                                 ![p].force = FALSE,
                                 ![p].checked = checked,
                                 ![p].val = <<>>,
                                 ![p].stack = <<"dl_after_gab">> \o @]
         /\ active' = {p}
    ELSE /\ proc' = [proc EXCEPT ![p].pc = "dl_invoke",
                                 ![p].checked = checked,
                                 ![p].val = <<>>]
         /\ active' = {p}

\* Lines 291-301: entry.  Without a check for the current channel,
\* checkForUpdates(this.currentChannel) is called first.
DownloadEnter(p) ==
    /\ CanContinue(p, "dl_enter")
    /\ IF NeedsCheck
       THEN /\ proc' = [proc EXCEPT ![p].pc = "chk_enter",
                                    ![p].channel = currentChannel,
                                    ![p].checked = "running",
                                    ![p].stack = <<"dl_after_chk">> \o @]
            /\ UNCHANGED active
       ELSE DownloadVerify(p, "no")
    /\ UNCHANGED <<store, disk, history, now, currentChannel, branchesCache, lastUpdateCheck,
                   engine, releasesCache, calls>>

\* Lines 297-306: the check is back; its failure is rethrown wrapped.
DownloadAfterCheck(p) ==
    /\ CanResume(p, "dl_after_chk")
    /\ IF proc[p].err # "none"
       THEN /\ proc' = [proc EXCEPT
                          ![p] = Throws([@ EXCEPT !.checked = "failed"],
                                        "check failed")]
            /\ UNCHANGED active
       ELSE DownloadVerify(p, "ok")
    /\ UNCHANGED <<store, disk, history, now, currentChannel, branchesCache, lastUpdateCheck,
                   engine, releasesCache, calls>>

\* Lines 310-320: the branch list is back (an exception of it leaves
\* downloadUpdate as it is); the feed is pointed at the current channel's
\* tag when the list holds it.
DownloadAfterBranches(p) ==
    /\ CanResume(p, "dl_after_gab")
    /\ IF proc[p].err # "none"
       THEN /\ proc' = [proc EXCEPT ![p] = Throws(@, proc[p].err)]
            /\ UNCHANGED <<store, disk, history, engine, active>>
       ELSE LET targetBranch == FindBranch(proc[p].val, currentChannel)
            IN  /\ engine' = IF targetBranch # NoBranch
                                  /\ targetBranch.releaseTag # NoTag
                             THEN [engine EXCEPT !.feed = targetBranch.releaseTag]
                             ELSE engine
                /\ proc' = [proc EXCEPT ![p].pc = "dl_invoke", ![p].val = <<>>]
                /\ active' = {p}
    /\ UNCHANGED <<store, disk, history, now, currentChannel, branchesCache, lastUpdateCheck,
                   releasesCache, calls>>

\* Lines 322-343: the listeners are registered and the engine's
\* downloadUpdate() is invoked.
DownloadInvoke(p) ==
    /\ CanContinue(p, "dl_invoke")
    /\ proc' = [proc EXCEPT ![p].pc = "dl_await", ![p].downloads = @ + 1]
    /\ engine' = [engine EXCEPT !.downloading = TRUE, !.progress = @ + 1]
    /\ active' = NoProc
    /\ UNCHANGED <<store, disk, history, now, currentChannel, branchesCache, lastUpdateCheck,
                   releasesCache, calls>>

\* Mutant: the engine's error is rethrown wrapped, as the error of the
\* check is.
SettleDownloadsWrapped(e) ==
    [q \in Procs |->
        IF proc[q].pc = "dl_await"
        THEN Settled(proc[q], <<>>,
                     IF e = "none" THEN e ELSE "download failed")
        ELSE proc[q]]

\* Lines 327-339: every downloadUpdate that waits for the engine's event
\* settles, resolved by update-downloaded, rejected with the error of
\* the error event.
SettleDownloads(e) ==
    [q \in Procs |->
        IF q \in Waiting THEN Settled(proc[q], <<>>, e) ELSE proc[q]]

\* Lines 327-332: the engine emits update-downloaded.
EngineUpdateDownloaded ==
    /\ ~engine.quit
    /\ active = NoProc
    /\ engine.downloading
    /\ engine' = [engine EXCEPT !.downloading = FALSE, !.downloaded = TRUE,
                                !.progress = @ - Cardinality(Waiting)]
    /\ proc' = SettleDownloads("none")
    /\ UNCHANGED <<store, disk, history, now, currentChannel, branchesCache, lastUpdateCheck,
                   releasesCache, active, calls>>

\* Lines 334-342: the download fails; the engine emits error.
EngineDownloadError ==
    /\ ~engine.quit
    /\ active = NoProc
    /\ engine.downloading
    /\ engine' = [engine EXCEPT !.downloading = FALSE,
                                !.progress = @ - Cardinality(Waiting)]
    /\ proc' = SettleDownloads("engine error")
    /\ UNCHANGED <<store, disk, history, now, currentChannel, branchesCache, lastUpdateCheck,
                   releasesCache, active, calls>>

\* Line 342: the promise of the engine's downloadUpdate() is rejected
\* and no error event has run the listeners: .catch(reject) rejects the
\* calls that wait, and nothing removes their progress listeners.
EngineDownloadRejected ==
    /\ ~engine.quit
    /\ active = NoProc
    /\ engine.downloading
    /\ Waiting # {}
    /\ engine' = [engine EXCEPT !.downloading = FALSE]
    /\ proc' = SettleDownloads("engine error")
    /\ UNCHANGED <<store, disk, history, now, currentChannel, branchesCache, lastUpdateCheck,
                   releasesCache, active, calls>>

\* ------------------------------------------- UpdaterService.setupAutoUpdate

\* Mutant: the callback has no try around the check.
AutoCheckOutcomeRethrow(r) ==
    Settled([r EXCEPT !.checked = IF r.err = "none" THEN "ok" ELSE "failed"],
            <<>>, r.err)

\* Lines 393-399: the callback awaits checkForUpdates() in a try whose
\* catch logs the error.
AutoCheckOutcome(r) ==
    Returns([r EXCEPT !.checked = IF r.err = "none" THEN "ok" ELSE "failed"],
            <<>>)

\* Lines 393-399: the check of the timer callback is back.
AutoCheckDone(p) ==
    /\ CanResume(p, "auto_after_chk")
    /\ proc' = [proc EXCEPT ![p] = AutoCheckOutcome(@)]
    /\ UNCHANGED <<store, disk, history, now, currentChannel, branchesCache,
                   lastUpdateCheck, engine, releasesCache, active, calls>>

\* --------------------------------------------- UpdaterService.switchChannel

\* Lines 361-371: the check is back; its result tells whether an update
\* is available, its failure is rethrown.
SwitchAfterCheck(p) ==
    /\ CanResume(p, "sw_after_chk")
    /\ proc' = [proc EXCEPT ![p] =
                  IF @.err # "none" THEN Throws(@, @.err)
                  ELSE Returns(@, @.val.present)]
    /\ UNCHANGED <<store, disk, history, now, currentChannel, branchesCache, lastUpdateCheck,
                   engine, releasesCache, active, calls>>

\* ------------------------------- ReleaseChannelIPCHandlers.listReleases

\* Bodies of the releases request (part_005:146-151, 172).
ReleaseBodies == Listings \cup { <<Release(TagPr5, TRUE)>> }

\* The etag header of a 200 response with this body.
EtagOf(body) == IF Len(body) = 1 THEN "etag-a" ELSE "etag-b"

\* part_005:124-128: the cache answers the call.
ReleasesCacheHit(force) ==
    /\ ~force
    /\ releasesCache.present
    /\ now - releasesCache.fetchedAt < RELEASES_CACHE_TTL

\* The GitHubReleaseResponse values.
Listed(releases) == [releases |-> releases, error |-> "none"]
NotListed(error) == [releases |-> <<>>, error |-> error]

\* part_005:122-137: entry.  A hit returns the cached releases; a miss
\* awaits the stored token.
LrEnter(p) ==
    /\ CanContinue(p, "lr_enter")
    /\ IF ReleasesCacheHit(proc[p].force)
       THEN proc' = [proc EXCEPT ![p] = Returns(@, Listed(releasesCache.releases))]
       ELSE proc' = [proc EXCEPT ![p].pc = "lr_await_token"]
    /\ active' = NoProc
    /\ UNCHANGED <<store, disk, history, now, currentChannel, branchesCache, lastUpdateCheck,
                   engine, releasesCache, calls>>

\* part_005:137-151: the token is back; the request is sent, with
\* If-None-Match when the cache holds an etag.
LrToken(p) ==
    /\ CanResume(p, "lr_await_token")
    /\ proc' = [proc EXCEPT ![p].pc = "lr_await_fetch",
                            ![p].etag = IF releasesCache.present
                                        THEN releasesCache.etag ELSE "none",
                            ![p].sent = @ + 1]
    /\ UNCHANGED <<store, disk, history, now, currentChannel, branchesCache, lastUpdateCheck,
                   engine, releasesCache, active, calls>>

\* Mutant: the renewal forgets the etag.
NotModifiedCacheDropsEtag(cache) ==
    [cache EXCEPT !.fetchedAt = now, !.etag = "none"]

\* part_005:153-156: the entry after a 304: fetchedAt is renewed, the rest
\* is kept.
NotModifiedCache(cache) == [cache EXCEPT !.fetchedAt = now]

\* Statuses of the response other than 200 and 304.
FailStatuses == {"rate limit", "forbidden", "unavailable"}

\* part_005:146-170: the response arrives (or fetch throws).  304 with a
\* cache entry renews fetchedAt; a status that is not OK reads the body
\* text; 200 reads the JSON body.
LrFetch(p) ==
    /\ CanResume(p, "lr_await_fetch")
    /\ \/ /\ proc' = [proc EXCEPT ![p] = Returns(@, NotListed("exception"))]
          /\ UNCHANGED releasesCache
       \/ /\ proc[p].etag # "none"
          /\ IF releasesCache.present
             THEN /\ releasesCache' = NotModifiedCache(releasesCache)
                  /\ proc' = [proc EXCEPT
                                ![p] = Returns([@ EXCEPT !.resp = "not modified"],
                                               Listed(releasesCache.releases))]
             ELSE /\ proc' = [proc EXCEPT ![p].pc = "lr_await_text",
                                          ![p].resp = "not modified"]
                  /\ UNCHANGED releasesCache
       \/ \E status \in FailStatuses :
            /\ proc' = [proc EXCEPT ![p].pc = "lr_await_text",
                                    ![p].resp = status]
            /\ UNCHANGED releasesCache
       \/ /\ proc' = [proc EXCEPT ![p].pc = "lr_await_json", ![p].resp = "ok"]
          /\ UNCHANGED releasesCache
    /\ UNCHANGED <<store, disk, history, now, currentChannel, branchesCache, lastUpdateCheck,
                   engine, active, calls>>

\* part_005:158-170: the reply for a response that is not OK.
LrErrorReply(status) ==
    NotListed(IF status = "rate limit" THEN "rate limit exceeded"
              ELSE "failed to fetch releases")

\* part_005:159-170: the body text is read.
LrText(p) ==
    /\ CanResume(p, "lr_await_text")
    /\ proc' = [proc EXCEPT ![p] = Returns(@, LrErrorReply(proc[p].resp))]
    /\ UNCHANGED <<store, disk, history, now, currentChannel, branchesCache, lastUpdateCheck,
                   engine, releasesCache, active, calls>>

\* part_005:172-179: the JSON body is read and stored with the time and
\* the etag header.  `dataAt` is not a field of the program: it records
\* when the stored releases were received.
LrJson(p) ==
    /\ CanResume(p, "lr_await_json")
    /\ \E body \in ReleaseBodies :
         /\ releasesCache' = [present |-> TRUE, releases |-> body,
                              fetchedAt |-> now, etag |-> EtagOf(body),
                              dataAt |-> now]
         /\ proc' = [proc EXCEPT ![p] = Returns(@, Listed(body))]
    /\ UNCHANGED <<store, disk, history, now, currentChannel, branchesCache, lastUpdateCheck,
                   engine, active, calls>>

\* ------------------------------------------------- ReleaseChannelStorage

\* encryptAndStore and decryptAndLoad of BaseSecureStorage: the record
\* holds the JSON text of the value, in which a tag that is undefined
\* has no member.
EncodeChannel(c) ==
    <<"type", c.type>> \o (IF c.tag # NoTag THEN <<"tag">> \o c.tag ELSE <<>>)

\* Mutant: the tag is not read back.
DecodeChannelTypeOnly(record) == [type |-> record[2], tag |-> NoTag]

DecodeChannel(record) ==
    [type |-> record[2],
     tag |-> IF Len(record) > 2 THEN SubSeq(record, 4, Len(record))
             ELSE NoTag]

\* Line 41: decryptAndLoad answers null when there is no record.
LoadedFrom(record) ==
    IF record = NoRecord THEN NoChannel ELSE DecodeChannel(record)

\* Mutant: without a record there is no channel.
LoadedOrNull(data) == data

\* Line 42: data || DEFAULT_CHANNEL
LoadedOrDefault(data) == IF data = NoChannel THEN DEFAULT_CHANNEL ELSE data

\* What getChannel returns: the cache when it is set, else the record or
\* the default.
Readable ==
    IF store # NoChannel THEN store ELSE LoadedOrDefault(LoadedFrom(disk))

\* Lines 36-39, 52-54: getChannel calls loadSettings, which returns the
\* cache when it is set and else awaits decryptAndLoad.
LoadEnter(p) ==
    /\ CanContinue(p, "get_enter")
    /\ IF store # NoChannel
       THEN proc' = [proc EXCEPT ![p] = Returns(@, store)]
       ELSE proc' = [proc EXCEPT ![p].pc = "get_await_load"]
    /\ active' = NoProc
    /\ UNCHANGED <<store, disk, history, now, currentChannel, branchesCache,
                   lastUpdateCheck, engine, releasesCache, calls>>

\* Line 41: the record is read and decrypted.
LoadRead(p) ==
    /\ CanResume(p, "get_await_load")
    /\ proc' = [proc EXCEPT ![p].pc = "get_loaded",
                            ![p].val = LoadedFrom(disk)]
    /\ UNCHANGED <<store, disk, history, now, currentChannel, branchesCache,
                   lastUpdateCheck, engine, releasesCache, active, calls>>

\* Lines 42-44: the cache takes what was read, or the default.
LoadDone(p) ==
    /\ CanResume(p, "get_loaded")
    /\ store' = LoadedOrDefault(proc[p].val)
    /\ proc' = [proc EXCEPT ![p] = Returns(@, store')]
    /\ UNCHANGED <<disk, history, now, currentChannel, branchesCache,
                   lastUpdateCheck, engine, releasesCache, active, calls>>

\* ------------------- ReleaseChannelIPCHandlers.setChannel, configureAutoUpdater

\* Channels the settings page stores.
StoredChannels == {DEFAULT_CHANNEL, TagChannel(TagPr5), TagChannel(TagPr7)}

\* Values of the type ReleaseChannel the SET handler may be handed: the
\* tag is optional whatever the type.
ChannelValues ==
    StoredChannels \cup {TagChannel(NoTag), [type |-> "latest", tag |-> TagPr5]}

\* part_005:315-324: the engine's flags for a channel.
ConfiguredFor(channel) ==
    IF channel.type = "latest"
    THEN [engine EXCEPT !.allowDowngrade = FALSE]
    ELSE IF channel.type = "tag" /\ channel.tag # NoTag
    THEN [engine EXCEPT !.allowDowngrade = TRUE]
    ELSE engine

\* part_005:306-333: configureAutoUpdater after the token is read (the
\* application is packaged): the flags are set for the channel and the
\* feed is the repository's.
ConfigureToken(p) ==
    /\ CanResume(p, "cfg_await_token")
    /\ engine' = [ConfiguredFor(proc[p].channel) EXCEPT !.feed = NoTag]
    /\ proc' = [proc EXCEPT ![p] = Returns(@, <<>>)]
    /\ UNCHANGED <<store, disk, history, now, currentChannel, branchesCache, lastUpdateCheck,
                   releasesCache, active, calls>>

\* part_005:118-119 and release-channel-storage.ts:49: encryptAndStore
\* has written the record and configureAutoUpdater is called with the
\* channel, or the write has failed and setChannel throws.
SetChannelSaved(p) ==
    /\ CanResume(p, "set_await_save")
    /\ \/ /\ disk' = EncodeChannel(proc[p].channel)
          /\ history' = [history EXCEPT !.saved = proc[p].channel]
          /\ proc' = [proc EXCEPT ![p].pc = "cfg_await_token",
                                  ![p].stack = <<"set_after_cfg">> \o @]
       \/ /\ proc' = [proc EXCEPT ![p] = Throws(@, "store failed")]
          /\ history' = [history EXCEPT !.saveFailed = TRUE]
          /\ UNCHANGED disk
    /\ UNCHANGED <<store, now, currentChannel, branchesCache, lastUpdateCheck,
                   engine, releasesCache, active, calls>>

\* part_005:119-120: configureAutoUpdater is back.
SetChannelConfigured(p) ==
    /\ CanResume(p, "set_after_cfg")
    /\ proc' = [proc EXCEPT ![p] = Returns(@, <<>>)]
    /\ UNCHANGED <<store, disk, history, now, currentChannel, branchesCache, lastUpdateCheck,
                   engine, releasesCache, active, calls>>

\* ------------------------------ ReleaseChannelIPCHandlers.checkForUpdates

\* The reply of checkForUpdates.
RcReply(available, error) == [available |-> available, error |-> error]

\* part_005:203-208, 263-265: getChannel has returned the channel.  A tag channel lists
\* the releases with forceRefresh = true; the latest channel configures
\* the engine.
RcCheckChannel(p) ==
    /\ CanResume(p, "rchk_await_channel")
    /\ IF proc[p].val.type = "tag" /\ proc[p].val.tag # NoTag
       THEN /\ proc' = [proc EXCEPT ![p].pc = "lr_enter",
                                    ![p].channel = proc[p].val,
                                    ![p].force = TRUE,
                                    ![p].stack = <<"rchk_after_list">> \o @]
            /\ active' = {p}
       ELSE /\ proc' = [proc EXCEPT ![p].pc = "cfg_await_token",
                                    ![p].channel = proc[p].val,
                                    ![p].stack = <<"rchk_after_cfg">> \o @]
            /\ UNCHANGED active
    /\ UNCHANGED <<store, disk, history, now, currentChannel, branchesCache, lastUpdateCheck,
                   engine, releasesCache, calls>>

\* part_005:209-237: the releases are back.  An error, or no release
\* with the tag, ends the check; a release other than the running
\* version points the feed at the tag, allows prereleases and downgrade,
\* and asks the engine.
RcCheckAfterList(p) ==
    /\ CanResume(p, "rchk_after_list")
    /\ LET releases == proc[p].val
           tag == proc[p].channel.tag
       IN  IF releases.error # "none"
           THEN /\ proc' = [proc EXCEPT ![p] = Returns(@, RcReply(FALSE, releases.error))]
                /\ UNCHANGED engine
           ELSE IF ~\E i \in 1..Len(releases.releases) :
                       releases.releases[i].tag_name = tag
           THEN /\ proc' = [proc EXCEPT
                              ![p] = Returns(@, RcReply(FALSE, "release not found"))]
                /\ UNCHANGED engine
           ELSE IF AppVersion # tag
           THEN /\ engine' = [engine EXCEPT !.feed = tag, !.allowDowngrade = TRUE]
                /\ proc' = [proc EXCEPT ![p].pc = "rchk_await_engine_tag"]
           ELSE /\ proc' = [proc EXCEPT ![p] = Returns(@, RcReply(FALSE, "none"))]
                /\ UNCHANGED engine
    /\ UNCHANGED <<store, disk, history, now, currentChannel, branchesCache, lastUpdateCheck,
                   releasesCache, active, calls>>

\* part_005:236-254: the engine answers the check of a tag channel.
RcCheckEngineTag(p) ==
    /\ CanResume(p, "rchk_await_engine_tag")
    /\ \E answer \in EngineCheckAnswers :
         /\ engine' = EngineAfterCheck(answer)
         /\ proc' = CheckErrorEmitted(answer, [proc EXCEPT ![p] =
                       Returns(@, RcReply(answer = "update",
                                          IF answer = "update" THEN "none"
                                          ELSE IF answer = "nothing"
                                          THEN "no update found"
                                          ELSE "engine error"))])
    /\ UNCHANGED <<store, disk, history, now, currentChannel, branchesCache, lastUpdateCheck,
                   releasesCache, active, calls>>

\* part_005:265-268: the engine is configured; downgrade is forbidden and
\* the engine is asked.
RcCheckAfterConfigure(p) ==
    /\ CanResume(p, "rchk_after_cfg")
    /\ engine' = [engine EXCEPT !.allowDowngrade = FALSE]
    /\ proc' = [proc EXCEPT ![p].pc = "rchk_await_engine_latest"]
    /\ UNCHANGED <<store, disk, history, now, currentChannel, branchesCache, lastUpdateCheck,
                   releasesCache, active, calls>>

\* part_005:268-284: the engine answers the check of the latest channel.
RcCheckEngineLatest(p) ==
    /\ CanResume(p, "rchk_await_engine_latest")
    /\ \E answer \in EngineCheckAnswers :
         /\ engine' = EngineAfterCheck(answer)
         /\ proc' = CheckErrorEmitted(answer, [proc EXCEPT ![p] =
                       Returns(@, RcReply(answer = "update",
                                          IF answer = "throws" THEN "engine error"
                                          ELSE "none"))])
    /\ UNCHANGED <<store, disk, history, now, currentChannel, branchesCache, lastUpdateCheck,
                   releasesCache, active, calls>>

\* -------------------------------------------------------------- handlers

\* A handler is invoked in a slot that is free (its last reply was sent).
CanStart(p) ==
    /\ ~engine.quit
    /\ active = NoProc
    /\ proc[p].pc \in {"idle", "done"}
    /\ \A q \in 1..(p - 1) : proc[q].pc \notin {"idle", "done"}
    /\ calls < MaxCalls

Started(p, r) ==
    /\ proc' = [proc EXCEPT ![p] = r]
    /\ active' = {p}
    /\ calls' = calls + 1

\* updater-handlers.ts:16-27, and any other caller of the method.
StartGetBranches(p) ==
    /\ CanStart(p)
    /\ \E force \in BOOLEAN :
         Started(p, [Idle EXCEPT !.op = "getBranches", !.pc = "gab_enter",
                                 !.force = force])
    /\ UNCHANGED <<store, disk, history, now, currentChannel, branchesCache, lastUpdateCheck,
                   engine, releasesCache>>

\* updater-handlers.ts:16-18: the handler calls getAvailableBranches()
\* without an argument.
HandleGetBranches(p) ==
    /\ CanStart(p)
    /\ \E refresh \in BOOLEAN :
         Started(p, [Idle EXCEPT !.op = "getBranches", !.pc = "gab_enter",
                                 !.asked = refresh])
    /\ UNCHANGED <<store, disk, history, now, currentChannel, branchesCache, lastUpdateCheck,
                   engine, releasesCache>>

\* part_005:73: the handler calls listReleases() without an argument.
HandleListReleases(p) ==
    /\ CanStart(p)
    /\ \E refresh \in BOOLEAN :
         Started(p, [Idle EXCEPT !.op = "listReleases", !.pc = "lr_enter",
                                 !.asked = refresh])
    /\ UNCHANGED <<store, disk, history, now, currentChannel, branchesCache,
                   lastUpdateCheck, engine, releasesCache>>

\* part_005:73 (forceRefresh = false) and part_005:208 (true).
StartListReleases(p) ==
    /\ CanStart(p)
    /\ \E force \in BOOLEAN :
         Started(p, [Idle EXCEPT !.op = "listReleases", !.pc = "lr_enter",
                                 !.force = force])
    /\ UNCHANGED <<store, disk, history, now, currentChannel, branchesCache, lastUpdateCheck,
                   engine, releasesCache>>

\* updater-handlers.ts:47-62 and the timer of setupAutoUpdate (lines
\* 391-400): checkForUpdates(channel), the channel defaulting to the
\* current one.
StartCheckOf(p, channels) ==
    /\ CanStart(p)
    /\ \E channel \in channels :
         Started(p, [Idle EXCEPT !.op = "check", !.pc = "chk_enter",
                                 !.channel = channel])
    /\ UNCHANGED <<store, disk, history, now, currentChannel, branchesCache, lastUpdateCheck,
                   engine, releasesCache>>

StartCheck(p) == StartCheckOf(p, Channels \cup {currentChannel})

\* The check of the channel of the latest stable release.
StartCheckRunning(p) == StartCheckOf(p, RunningTags)

\* The check of the latest channel, of a branch build and of a channel
\* that has no release.
StartCheckBranch(p) == StartCheckOf(p, {LATEST, TagBranchX, TagPr7})

\* updater-handlers.ts:65-79.
StartDownload(p) ==
    /\ CanStart(p)
    /\ Started(p, [Idle EXCEPT
                     !.op = "download", !.pc = "dl_enter",
                     !.needed = (\/ ~lastUpdateCheck.present
                                 \/ lastUpdateCheck.channel # currentChannel)])
    /\ UNCHANGED <<store, disk, history, now, currentChannel, branchesCache, lastUpdateCheck,
                   engine, releasesCache>>

\* updater-handlers.ts:96-110 and lines 356-361: switchChannel(channel)
\* sets the current channel and calls checkForUpdates(channel).
StartSwitch(p) ==
    /\ CanStart(p)
    /\ \E channel \in Channels :
         /\ currentChannel' = channel
         /\ Started(p, [Idle EXCEPT !.op = "switch", !.pc = "chk_enter",
                                    !.channel = channel,
                                    !.stack = <<"sw_after_chk">>])
    /\ UNCHANGED <<store, disk, history, now, branchesCache, lastUpdateCheck, engine, releasesCache>>

\* part_005:70-72, 117-118: setChannel(channel) hands the channel to the
\* store, which keeps it and writes it to disk.
StartSetChannel(p) ==
    /\ CanStart(p)
    /\ \E channel \in ChannelValues :
         /\ store' = channel
         /\ proc' = [proc EXCEPT ![p] = [Idle EXCEPT !.op = "setChannel",
                                                     !.pc = "set_await_save",
                                                     !.channel = channel,
                                                     !.prior = Readable]]
    /\ history' = [history EXCEPT !.setCalled = TRUE]
    /\ calls' = calls + 1
    /\ UNCHANGED <<disk, now, currentChannel, branchesCache, lastUpdateCheck,
                   engine, releasesCache, active>>

\* Lines 391-395: the interval of setupAutoUpdate has elapsed and the
\* callback calls checkForUpdates(), the channel being the current one.
StartAutoCheck(p) ==
    /\ CanStart(p)
    /\ Started(p, [Idle EXCEPT !.op = "autoCheck", !.pc = "chk_enter",
                               !.channel = currentChannel,
                               !.stack = <<"auto_after_chk">>,
                               !.seen = branchesCache])
    /\ UNCHANGED <<store, disk, history, now, currentChannel, branchesCache,
                   lastUpdateCheck, engine, releasesCache>>

\* index.ts:117-121: the application is packaged and has just started;
\* the stored channel is read.
StartStartup(p) ==
    /\ CanStart(p)
    /\ \A q \in Procs : proc[q].op = "idle"
    /\ Started(p, [Idle EXCEPT !.op = "startup", !.pc = "get_enter",
                               !.stack = <<"startup_after_channel">>])
    /\ UNCHANGED <<store, disk, history, now, currentChannel, branchesCache,
                   lastUpdateCheck, engine, releasesCache>>

\* index.ts:122-123: configureAutoUpdater(channel) is called and not
\* awaited: it runs up to its await of the token (part_005:306); then
\* autoUpdater.checkForUpdatesAndNotify() is called.
StartupAfterChannel(p) ==
    /\ CanResume(p, "startup_after_channel")
    /\ proc' = [proc EXCEPT ![p].pc = "cfg_await_token",
                            ![p].channel = proc[p].val,
                            ![p].checked = "running",
                            ![p].stack = <<"startup_await_engine">> \o @]
    /\ UNCHANGED <<store, disk, history, now, currentChannel, branchesCache,
                   lastUpdateCheck, engine, releasesCache, active, calls>>

\* index.ts:123: the engine answers the check.
StartupEngineAnswer(p) ==
    /\ CanResume(p, "startup_await_engine")
    /\ \E answer \in EngineCheckAnswers :
         /\ engine' = EngineAfterCheck(answer)
         /\ proc' = CheckErrorEmitted(
                       answer,
                       [proc EXCEPT
                          ![p] = Returns([@ EXCEPT !.checked = "ok"], <<>>)])
    /\ UNCHANGED <<store, disk, history, now, currentChannel, branchesCache,
                   lastUpdateCheck, releasesCache, active, calls>>

\* part_005:69, 113-115: getChannel().
StartGetChannel(p) ==
    /\ CanStart(p)
    /\ Started(p, [Idle EXCEPT !.op = "getChannel", !.pc = "get_enter"])
    /\ UNCHANGED <<store, disk, history, now, currentChannel, branchesCache,
                   lastUpdateCheck, engine, releasesCache>>

\* part_005:74, 189-204: checkForUpdates() (the application is packaged)
\* asks the store for the channel.
StartRcCheck(p) ==
    /\ CanStart(p)
    /\ Started(p, [Idle EXCEPT !.op = "rcCheck", !.pc = "get_enter",
                               !.stack = <<"rchk_await_channel">>])
    /\ UNCHANGED <<store, disk, history, now, currentChannel, branchesCache,
                   lastUpdateCheck, engine, releasesCache>>

\* updater-handlers.ts:82-93 and lines 349-351: quitAndInstall() is passed
\* on to the engine, which quits the application when an update has been
\* downloaded.
Install(p) ==
    /\ CanStart(p)
    /\ proc' = [proc EXCEPT ![p] = [Idle EXCEPT !.op = "install", !.pc = "done"]]
    /\ calls' = calls + 1
    /\ engine' = [engine EXCEPT !.installCalls = @ + 1,
                                !.quit = engine.downloaded]
    /\ UNCHANGED <<store, disk, history, now, currentChannel, branchesCache, lastUpdateCheck,
                   releasesCache, active>>

\* Lines 405-408: clearCache().
ClearCache ==
    /\ ~engine.quit
    /\ active = NoProc
    /\ branchesCache.present
    /\ branchesCache' = NoCache
    /\ UNCHANGED <<store, disk, history, now, currentChannel, lastUpdateCheck, engine,
                   releasesCache, proc, active, calls>>

\* The instants at which something happens.
Instants == {0} \cup ((CACHE_DURATION_MS - 1)..MaxNow)

\* Time passes while the event loop is free.
Tick ==
    /\ ~engine.quit
    /\ active = NoProc
    /\ \E t \in Instants :
         /\ t > now
         /\ now' = t
    /\ UNCHANGED <<store, disk, history, currentChannel, branchesCache, lastUpdateCheck, engine,
                   releasesCache, proc, active, calls>>

Next ==
    \/ Tick
    \/ ClearCache
    \/ EngineUpdateDownloaded
    \/ EngineDownloadError
    \/ EngineDownloadRejected
    \/ \E p \in Procs :
         \/ StartGetBranches(p)
         \/ StartCheck(p)
         \/ StartDownload(p)
         \/ StartSwitch(p)
         \/ Install(p)
         \/ GabEnter(p)
         \/ GabLatest(p)
         \/ GabList(p)
         \/ GabRateLimit(p)
         \/ CheckEnter(p)
         \/ CheckAfterBranches(p)
         \/ CheckRelease(p)
         \/ CheckEngineTag(p)
         \/ CheckEngineLatest(p)
         \/ DownloadEnter(p)
         \/ DownloadAfterCheck(p)
         \/ DownloadAfterBranches(p)
         \/ DownloadInvoke(p)
         \/ SwitchAfterCheck(p)

Spec == Init /\ [][Next]_vars

\* The engine plays no part in the listing calls: one of its
\* configurations is enough for them.
InitCache == Init /\ ~engine.autoDownload

\* The release caches alone: the listing calls, invalidation and time.
NextCache ==
    \/ Tick
    \/ ClearCache
    \/ \E p \in Procs :
         \/ StartGetBranches(p)
         \/ HandleGetBranches(p)
         \/ GabEnter(p)
         \/ GabLatestAnyError(p)
         \/ GabList(p)
         \/ GabRateLimit(p)
         \/ StartListReleases(p)
         \/ HandleListReleases(p)
         \/ LrEnter(p)
         \/ LrToken(p)
         \/ LrFetch(p)
         \/ LrText(p)
         \/ LrJson(p)

SpecCache == InitCache /\ [][NextCache]_vars

\* No handler is running: requests that arrive one after another.
Quiet == \A q \in Procs : proc[q].pc \in {"idle", "done"}

\* The application is started again: every object is constructed anew,
\* the record on disk is what it was.
Restart ==
    /\ Quiet
    /\ calls > 0
    /\ ~history.restarted
    /\ currentChannel' = LATEST
    /\ branchesCache' = NoCache
    /\ lastUpdateCheck' = NoCheck
    /\ engine' = EngineAfterConstruction(engine.autoDownload)
    /\ releasesCache' = NoCache
    /\ store' = NoChannel
    /\ history' = [history EXCEPT !.restarted = TRUE, !.selected = LATEST,
                                  !.saveFailed = FALSE]
    /\ proc' = [p \in Procs |-> Idle]
    /\ active' = NoProc
    /\ UNCHANGED <<disk, now, calls>>

\* The classification of tags: getAvailableBranches called by its
\* handler, one call after another, on listings with tags of any shape.
NextClassify ==
    \E p \in Procs :
         \/ Quiet /\ HandleGetBranches(p)
         \/ GabEnter(p)
         \/ GabLatest(p)
         \/ GabListTagged(p)
         \/ GabRateLimit(p)

SpecClassify == InitCache /\ [][NextClassify]_vars

\* The two services on the shared engine: the checks, the channel
\* switches and the stored channel, requested one after another.
NextChannel ==
    \/ EngineUpdateDownloaded
    \/ EngineDownloadError
    \/ EngineDownloadRejected
    \/ Restart
    \/ \E p \in Procs :
         \/ Quiet /\ StartCheck(p)
         \/ Quiet /\ StartCheckRunning(p)
         \/ Quiet /\ StartSwitch(p)
         \/ Quiet /\ StartDownload(p)
         \/ Quiet /\ StartSetChannel(p)
         \/ StartStartup(p)
         \/ Quiet /\ StartAutoCheck(p)
         \/ Quiet /\ StartGetChannel(p)
         \/ Quiet /\ StartRcCheck(p)
         \/ GabEnter(p)
         \/ GabLatestRunning(p)
         \/ GabList(p)
         \/ GabRateLimit(p)
         \/ CheckEnter(p)
         \/ CheckAfterBranches(p)
         \/ CheckRelease(p)
         \/ CheckEngineTag(p)
         \/ CheckEngineLatest(p)
         \/ DownloadEnter(p)
         \/ DownloadAfterCheck(p)
         \/ DownloadAfterBranches(p)
         \/ DownloadInvoke(p)
         \/ SwitchAfterCheck(p)
         \/ AutoCheckDone(p)
         \/ StartupAfterChannel(p)
         \/ StartupEngineAnswer(p)
         \/ LoadEnter(p)
         \/ LoadRead(p)
         \/ LoadDone(p)
         \/ SetChannelSaved(p)
         \/ SetChannelConfigured(p)
         \/ ConfigureToken(p)
         \/ RcCheckChannel(p)
         \/ RcCheckAfterList(p)
         \/ RcCheckEngineTag(p)
         \/ RcCheckAfterConfigure(p)
         \/ RcCheckEngineLatest(p)
         \/ LrEnter(p)
         \/ LrToken(p)
         \/ LrFetch(p)
         \/ LrText(p)
         \/ LrJson(p)

SpecChannel == Init /\ [][NextChannel]_vars

\* The channel store under concurrent requests: the handlers of
\* getChannel and setChannel are asynchronous and interleave at their
\* awaits.
NextStore ==
    \/ Restart
    \/ \E p \in Procs :
         \/ StartGetChannel(p)
         \/ StartSetChannel(p)
         \/ LoadEnter(p)
         \/ LoadRead(p)
         \/ LoadDone(p)
         \/ SetChannelSaved(p)
         \/ ConfigureToken(p)
         \/ SetChannelConfigured(p)

SpecStore == Init /\ [][NextStore]_vars

\* The steps of a handler of the UpdaterService: a request to the
\* registry or to the engine has answered, or the synchronous code after
\* an await goes on.
HandlerStep(p) ==
    \/ GabEnter(p)
    \/ GabLatest(p)
    \/ GabListBranch(p)
    \/ GabRateLimit(p)
    \/ CheckEnter(p)
    \/ CheckAfterBranches(p)
    \/ CheckRelease(p)
    \/ CheckEngineTag(p)
    \/ CheckEngineLatest(p)
    \/ DownloadEnter(p)
    \/ DownloadAfterCheck(p)
    \/ DownloadAfterBranches(p)
    \/ DownloadInvoke(p)

\* The engine ends the download it has started: update-downloaded, error,
\* or the rejection of its promise.
EngineEndsDownload ==
    \/ EngineUpdateDownloaded
    \/ EngineDownloadError
    \/ EngineDownloadRejected

\* Checks, downloads and the installation, requested at any time.
NextDownload ==
    \/ EngineEndsDownload
    \/ \E p \in Procs :
         \/ StartCheckBranch(p)
         \/ StartDownload(p)
         \/ Install(p)
         \/ HandlerStep(p)

\* The requests to the registry and to the engine are answered, the
\* event loop runs the code that can run, and the engine ends every
\* download it has started.
FairDownload ==
    /\ WF_vars(EngineEndsDownload)
    /\ \A p \in Procs : WF_vars(HandlerStep(p))

SpecDownload == Init /\ [][NextDownload]_vars /\ FairDownload

\* ------------------------------------------------------------ properties

\* downloadUpdate has reached the engine's download.
InvokedDownload(p) ==
    \/ proc[p].pc \in {"dl_invoke", "dl_await"}
    \/ /\ proc[p].pc = "done"
       /\ proc[p].err \in {"none", "engine error", "check error"}

\* The recorded check is one for the current channel that found an update.
CheckedCurrentChannel ==
    /\ lastUpdateCheck.present
    /\ lastUpdateCheck.channel = currentChannel
    /\ lastUpdateCheck.updateInfo.present

\* C1: whenever downloadUpdate is about to invoke the engine's download,
\* the recorded last check is for the currently selected channel and
\* holds a non-null updateInfo.
C1_DownloadOnCheckedChannel ==
    \A p \in Procs : proc[p].pc = "dl_invoke" => CheckedCurrentChannel

Executing ==
    { p \in Procs : /\ proc[p].op \in {"check", "download", "switch"}
                    /\ proc[p].pc \notin {"idle", "done", "chk_enter", "dl_enter"} }

\* C3: at most one of checkForUpdates / downloadUpdate (switchChannel runs
\* checkForUpdates) is in progress at a time.
C3_OneSessionOperationAtATime == Cardinality(Executing) <= 1

\* C4: the engine's quitAndInstall is invoked only when a download has
\* completed.
C4_InstallOnlyWhenDownloaded ==
    [][engine'.installCalls # engine.installCalls => engine.downloaded]_vars

\* The steps of C5.  A call that enters with forceRefresh = false and an
\* entry younger than the TTL sends nothing, returns the entry's list and
\* leaves the entry alone; the call that stores an entry has sent
\* `branchCalls` requests (getAvailableBranches) or `releaseCalls`
\* requests (listReleases).
C5_Step(branchCalls, releaseCalls) ==
    /\ \A p \in Procs :
         (/\ proc[p].pc = "gab_enter"
          /\ ~proc[p].force
          /\ branchesCache.present
          /\ now - branchesCache.timestamp < 5) =>
            /\ proc'[p].pc = "done"
            /\ proc'[p].sent = proc[p].sent
            /\ proc'[p].err = "none"
            /\ proc'[p].val = branchesCache.data
            /\ branchesCache' = branchesCache
    /\ \A p \in Procs :
         (/\ proc[p].pc = "lr_enter"
          /\ ~proc[p].force
          /\ releasesCache.present
          /\ now - releasesCache.fetchedAt < 5) =>
            /\ proc'[p].pc = "done"
            /\ proc'[p].sent = proc[p].sent
            /\ proc'[p].val = [releases |-> releasesCache.releases,
                               error |-> "none"]
            /\ releasesCache' = releasesCache
    /\ (branchesCache'.present /\ branchesCache' # branchesCache) =>
         \E p \in Procs : /\ proc[p].pc = "gab_await_list"
                          /\ proc'[p].pc = "done"
                          /\ proc'[p].sent = branchCalls
    /\ (releasesCache'.present /\ releasesCache' # releasesCache) =>
         \E p \in Procs : /\ proc[p].pc \in {"lr_await_fetch", "lr_await_json"}
                          /\ proc'[p].pc = "done"
                          /\ proc'[p].sent = releaseCalls

\* C5, as claimed: a get within the TTL makes no registry call and returns
\* the cached list, so that the one registry call of the populating fetch
\* is the only one.
C5_OneRegistryCall == [][C5_Step(1, 1)]_vars

\* C5, amended: a get within the TTL makes no registry call and returns
\* the cached list, so that the requests of the populating fetch are the
\* only ones: two for getAvailableBranches (the latest release and the
\* listing), one for listReleases.
C5_NoCallWithinTtl == [][C5_Step(2, 1)]_vars

\* C5 witness: a getAvailableBranches call answered from an entry that
\* an earlier call stored, some minutes old, without a request.
C5_Witness ==
    \E p \in Procs :
        /\ proc[p].op = "getBranches"
        /\ proc[p].pc = "done"
        /\ ~proc[p].force
        /\ proc[p].sent = 0
        /\ branchesCache.present
        /\ now - branchesCache.timestamp \in 1..4
        /\ proc[p].val = branchesCache.data

\* C6: at most one registry fetch is in flight for each cache.
C6_OneFetchInFlight ==
    /\ Cardinality({p \in Procs :
          proc[p].pc \in {"gab_await_latest", "gab_await_list"}}) <= 1
    /\ Cardinality({p \in Procs :
          proc[p].pc \in {"lr_await_fetch", "lr_await_json"}}) <= 1

\* C7: a refresh of getAvailableBranches that failed with a rate-limit
\* error returns the cached list, with no error, whenever an entry
\* exists: whatever the entry's age and whatever the rate-limit status
\* query answers.
C7_RateLimitFallsBackToCache ==
    [][\A p \in Procs :
         (/\ proc[p].pc = "gab_await_rl"
          /\ proc[p].apiErr = "rate limit"
          /\ branchesCache.present
          /\ proc'[p] # proc[p]) =>
            /\ proc'[p].pc # "gab_await_rl"
            /\ proc'[p].err = "none"
            /\ proc'[p].val = branchesCache.data]_vars

\* C7 witness: a call whose refresh was rate-limited, whose status query
\* answered, has returned the list of an entry older than the TTL.
C7_Witness ==
    \E p \in Procs :
        /\ proc[p].op = "getBranches"
        /\ proc[p].pc = "done"
        /\ proc[p].apiErr = "rate limit"
        /\ proc[p].rl = "ok"
        /\ proc[p].err = "none"
        /\ branchesCache.present
        /\ now - branchesCache.timestamp >= 5
        /\ proc[p].val = branchesCache.data

\* C8: a refresh that failed with a rate-limit error, with no entry in
\* the cache and an answered status query, fails with the rate-limit
\* error that carries the remaining quota and the reset time.
C8_RateLimitErrorCarriesQuota ==
    [][\A p \in Procs :
         (/\ proc[p].pc = "gab_await_rl"
          /\ ~branchesCache.present
          /\ proc'[p].rl = "ok") =>
            proc'[p].err = "rate limit with quota"]_vars

\* C9: a refresh of getAvailableBranches that failed with an error other
\* than a rate limit returns the cached list, with no error, when an
\* entry exists (whatever its age, forced refresh or not), and fails
\* with the fetch error only when none exists.
C9_OtherErrorFallsBackToCache ==
    [][\A p \in Procs :
         (/\ proc[p].pc = "gab_await_list"
          /\ proc'[p].apiErr \in {"forbidden", "unavailable"}) =>
            IF branchesCache.present
            THEN /\ proc'[p].err = "none"
                 /\ proc'[p].val = branchesCache.data
            ELSE proc'[p].err = "fetch failed"]_vars

\* C9 witness: a refresh that failed with another error has returned the
\* list of an entry older than the TTL.
C9_Witness ==
    \E p \in Procs :
        /\ proc[p].op = "getBranches"
        /\ proc[p].pc = "done"
        /\ proc[p].apiErr \in {"forbidden", "unavailable"}
        /\ proc[p].err = "none"
        /\ branchesCache.present
        /\ now - branchesCache.timestamp >= 5
        /\ proc[p].val = branchesCache.data

\* C10: a listReleases call that could not refresh replies with the
\* cached releases, and no error, when an entry exists.
C10_ListReleasesFallsBackToCache ==
    [][\A p \in Procs :
         (/\ proc[p].pc \in {"lr_await_fetch", "lr_await_text"}
          /\ proc'[p].pc = "done"
          /\ releasesCache.present) =>
            proc'[p].val = [releases |-> releasesCache.releases,
                            error |-> "none"]]_vars

\* C11: in listReleases a 304 response received while an entry exists
\* sets the entry's fetchedAt to the current time, leaves its releases
\* and its etag as they are, and the call returns the cached releases
\* with no error.
C11_NotModifiedRenewsEntry ==
    [][\A p \in Procs :
         (/\ proc[p].pc = "lr_await_fetch"
          /\ proc'[p].resp = "not modified"
          /\ releasesCache.present) =>
            /\ releasesCache'.present
            /\ releasesCache'.fetchedAt = now
            /\ releasesCache'.releases = releasesCache.releases
            /\ releasesCache'.etag = releasesCache.etag
            /\ proc'[p].pc = "done"
            /\ proc'[p].val = [releases |-> releasesCache.releases,
                               error |-> "none"]]_vars

\* C11 witness: a call answered 304 has returned the cached releases and
\* the entry's fetchedAt is later than the time its releases arrived.
C11_Witness ==
    \E p \in Procs :
        /\ proc[p].op = "listReleases"
        /\ proc[p].pc = "done"
        /\ proc[p].resp = "not modified"
        /\ releasesCache.present
        /\ releasesCache.fetchedAt > releasesCache.dataAt
        /\ releasesCache.etag # "none"
        /\ proc[p].val = [releases |-> releasesCache.releases,
                          error |-> "none"]

\* C12: the instants at which listReleases(forceRefresh = false) is
\* served from the cache are those less than 5 minutes after the last
\* response that carried data; a 304 does not move that window.
C12_WindowCountsFromLastData ==
    releasesCache.present =>
        \A t \in releasesCache.fetchedAt..(MaxNow + RELEASES_CACHE_TTL) :
            (t - releasesCache.fetchedAt < RELEASES_CACHE_TTL)
                <=> (t - releasesCache.dataAt < RELEASES_CACHE_TTL)

\* C14: the delivery engine starts a download only from an explicit
\* downloadUpdate call; checkForUpdates and switchChannel never start
\* one, whichever service configured the engine last.
C14_DownloadOnlyOnRequest ==
    [][(engine'.downloading /\ ~engine.downloading) =>
          \E p \in Procs : proc[p].pc = "dl_invoke"]_vars

\* C16: when a check for a tag channel whose release is not the running
\* version issues the engine's check (in UpdaterService.checkForUpdates
\* and in ReleaseChannelIPCHandlers.checkForUpdates), the feed points at
\* that tag and allowDowngrade is true.
C16_TagCheckAllowsDowngrade ==
    [][\A p \in Procs :
         /\ (/\ proc[p].pc = "chk_await_release"
             /\ proc'[p].pc = "chk_await_engine_tag") =>
               /\ engine'.feed = proc[p].tag
               /\ engine'.allowDowngrade
         /\ (/\ proc[p].pc = "rchk_after_list"
             /\ proc'[p].pc = "rchk_await_engine_tag") =>
               /\ engine'.feed = proc[p].channel.tag
               /\ engine'.allowDowngrade]_vars

\* C20: checkForUpdates for a tag channel looks the channel up in the
\* branch list it got from getAvailableBranches; when no entry has that
\* name it fails with the channel-not-found error, which its caller
\* receives, without requesting the release and without touching the
\* engine.
C20_ChannelNotFound ==
    [][\A p \in Procs :
         (/\ proc[p].pc = "chk_after_gab"
          /\ proc[p].err = "none"
          /\ proc'[p] # proc[p]
          /\ ~\E i \in 1..Len(proc[p].val) :
                 proc[p].val[i].name = proc[p].channel) =>
            /\ proc'[p].err = "channel not found"
            /\ proc'[p].pc = (IF proc[p].stack = <<>> THEN "done"
                              ELSE Head(proc[p].stack))
            /\ proc'[p].sent = proc[p].sent
            /\ engine' = engine
            /\ lastUpdateCheck' = [present |-> FALSE]]_vars

\* C20 witness: a check for a channel that the cached listing does not
\* hold has failed with the channel-not-found error.
C20_Witness ==
    \E p \in Procs :
        /\ proc[p].op = "check"
        /\ proc[p].pc = "done"
        /\ proc[p].err = "channel not found"
        /\ currentChannel = TagPr7
        /\ branchesCache.present
        /\ \A i \in 1..Len(branchesCache.data) :
               branchesCache.data[i].name # currentChannel
        /\ engine.feed = NoTag
        /\ ~lastUpdateCheck.present

\* A sequence of decimal digits, and the number it writes.
IsInteger(s) ==
    /\ s # <<>>
    /\ \A i \in 1..Len(s) :
         s[i] \in {"0", "1", "2", "3", "4", "5", "6", "7", "8", "9"}

RECURSIVE DecimalValue(_)
DecimalValue(s) ==
    IF s = <<>> THEN 0
    ELSE LET c == s[Len(s)]
             d == CHOOSE n \in 0..9 :
                      <<"0", "1", "2", "3", "4", "5", "6", "7", "8", "9">>[n + 1] = c
         IN  10 * DecimalValue(SubSeq(s, 1, Len(s) - 1)) + d

\* What follows `prefix` in a tag that starts with it.
HasPrefix(tag, prefix) ==
    /\ Len(tag) >= Len(prefix)
    /\ \A i \in 1..Len(prefix) : tag[i] = prefix[i]

SuffixAfter(tag, prefix) == SubSeq(tag, Len(prefix) + 1, Len(tag))

\* A prerelease tagged pr-<integer>, and one tagged branch-<name>.
IsPrRelease(r) ==
    /\ r.prerelease
    /\ HasPrefix(r.tag_name, <<"p", "r", "-">>)
    /\ IsInteger(SuffixAfter(r.tag_name, <<"p", "r", "-">>))

IsBranchRelease(r) ==
    /\ r.prerelease
    /\ HasPrefix(r.tag_name, <<"b", "r", "a", "n", "c", "h", "-">>)

\* C17: a prerelease whose tag is "pr-" followed by something that is not
\* an integer ("pr-abc", "pr-12abc") has no entry in the list that
\* getAvailableBranches returns.
C17_MalformedPrTagsAreSkipped ==
    \A p \in Procs :
        (proc[p].pc = "done" /\ proc[p].listed # <<>>) =>
            \A i \in 1..Len(proc[p].listed) :
                LET r == proc[p].listed[i]
                IN  (/\ r.prerelease
                     /\ HasPrefix(r.tag_name, <<"p", "r", "-">>)
                     /\ ~IsPrRelease(r)) =>
                        \A j \in 1..Len(proc[p].val) :
                            proc[p].val[j].name # r.tag_name

\* The list `out` built from the latest stable tag and the listing `rel`
\* gives every entry one kind, as C18 says.
C18_Classified(latest, rel, out) ==
    /\ \A j \in 1..Len(out) :
         /\ out[j].type \in {"pr", "branch", "release"}
         /\ out[j].releaseTag = out[j].name
         /\ out[j].prNumber # -2 => out[j].type = "pr"
         /\ out[j].type = "pr" => out[j].prNumber >= 0
         /\ out[j].type = "release" => (j = 1 /\ out[j].name = latest)
         /\ out[j].type # "release" =>
              \E i \in 1..Len(rel) : rel[i].tag_name = out[j].name
    /\ latest # <<>> => (out # <<>> /\ out[1].type = "release"
                                   /\ out[1].name = latest)
    /\ \A i \in 1..Len(rel) :
         /\ IsPrRelease(rel[i]) =>
              \E j \in 1..Len(out) :
                  /\ out[j].name = rel[i].tag_name
                  /\ out[j].type = "pr"
                  /\ out[j].prNumber =
                       DecimalValue(SuffixAfter(rel[i].tag_name, <<"p", "r", "-">>))
         /\ IsBranchRelease(rel[i]) =>
              \E j \in 1..Len(out) :
                  /\ out[j].name = rel[i].tag_name
                  /\ out[j].type = "branch"
                  /\ out[j].prNumber = -2
                  /\ out[j].displayName =
                       <<"Branch: ">> \o
                       SuffixAfter(rel[i].tag_name,
                                   <<"b", "r", "a", "n", "c", "h", "-">>)

\* C18: in the list a fetch of getAvailableBranches returns, a prerelease
\* tagged pr-<n> has an entry of type pr with prNumber n, a prerelease
\* tagged branch-<rest> an entry of type branch displayed as
\* "Branch: <rest>", the latest stable release the entry of type release;
\* only pr entries carry a prNumber, and every entry's name and
\* releaseTag are the registry's tag.
C18_EveryEntryHasOneKind ==
    [][\A p \in Procs :
         (proc[p].pc = "gab_await_list" /\ proc'[p].listed # <<>>) =>
            C18_Classified(proc[p].latest, proc'[p].listed, proc'[p].val)]_vars

\* C18 witness: a returned list with the release entry, the entry of
\* pr-12 with prNumber 12 and the entry of branch-x.
C18_Witness ==
    \E p \in Procs :
        /\ proc[p].pc = "done"
        /\ proc[p].listed # <<>>
        /\ Len(proc[p].val) = 3
        /\ proc[p].val[1].type = "release"
        /\ proc[p].val[2].type = "pr"
        /\ proc[p].val[2].name = <<"p", "r", "-", "1", "2">>
        /\ proc[p].val[2].prNumber = 12
        /\ proc[p].val[3].type = "branch"
        /\ proc[p].val[3].displayName = <<"Branch: ", "x">>

\* The tags of the releases of `rel` that are pr-<integer> or
\* branch-<name> prereleases, in the order of the listing.
RECURSIVE ValidTags(_)
ValidTags(rel) ==
    IF rel = <<>> THEN <<>>
    ELSE (IF IsPrRelease(Head(rel)) \/ IsBranchRelease(Head(rel))
          THEN <<Head(rel).tag_name>> ELSE <<>>) \o ValidTags(Tail(rel))

\* C19: a fetch of getAvailableBranches returns the release entry when
\* there is a latest stable release, then one entry for each prerelease
\* tagged pr-<integer> or branch-<name>, in the order of the listing
\* (newest first), and nothing else.
C19_ExactlyTheValidReleases ==
    [][\A p \in Procs :
         (proc[p].pc = "gab_await_list" /\ proc'[p].listed # <<>>) =>
            LET expected ==
                    (IF proc[p].latest # <<>> THEN <<proc[p].latest>> ELSE <<>>)
                        \o ValidTags(proc'[p].listed)
                out == proc'[p].val
            IN  /\ Len(out) = Len(expected)
                /\ \A j \in 1..Len(out) : out[j].name = expected[j]]_vars

\* C13: when switchChannel(channel) has succeeded, the Channel Store
\* holds the new channel.
C13_SwitchPersistsChannel ==
    [][\A p \in Procs :
         (/\ proc[p].pc = "sw_after_chk"
          /\ proc'[p].pc = "done"
          /\ proc'[p].err = "none") =>
            IF proc[p].channel = <<"l", "a", "t", "e", "s", "t">>
            THEN store'.type = "latest"
            ELSE store' = [type |-> "tag", tag |-> proc[p].channel]]_vars

\* C15: whenever a check of the engine is issued for the latest channel,
\* or a download is invoked while the current channel is latest,
\* allowDowngrade is false, whatever was checked or stored before.
C15_LatestNeverAllowsDowngrade ==
    [][\A p \in Procs :
         (\/ /\ proc[p].pc = "chk_enter"
             /\ proc'[p].pc = "chk_await_engine_latest"
          \/ /\ proc[p].pc = "rchk_after_cfg"
             /\ proc'[p].pc = "rchk_await_engine_latest"
          \/ /\ proc[p].pc = "dl_invoke"
             /\ proc'[p].pc = "dl_await"
             /\ currentChannel = <<"l", "a", "t", "e", "s", "t">>) =>
            ~engine'.allowDowngrade]_vars

\* C21: when the latest-release lookup answers 404 (the repository has
\* no stable release), getAvailableBranches raises no error: it goes on
\* to the listing, and the list it returns holds the entries of the
\* pull-request and branch prereleases and no release entry.
C21_NotFoundIsNoError ==
    [][\A p \in Procs :
         /\ (proc[p].pc = "gab_await_latest"
                /\ proc'[p].latestErr = "not found") =>
               (proc'[p].pc = "gab_await_list" /\ proc'[p].err = "none")
         /\ (/\ proc[p].pc = "gab_await_list"
             /\ proc[p].latestErr = "not found"
             /\ proc'[p].listed # <<>>) =>
               /\ proc'[p].err = "none"
               /\ \A j \in 1..Len(proc'[p].val) :
                    proc'[p].val[j].type \in {"pr", "branch"}
               /\ \A i \in 1..Len(proc'[p].listed) :
                    (IsPrRelease(proc'[p].listed[i])
                       \/ IsBranchRelease(proc'[p].listed[i])) =>
                        \E j \in 1..Len(proc'[p].val) :
                            proc'[p].val[j].name =
                                proc'[p].listed[i].tag_name]_vars

\* C21 witness: a fetch whose lookup answered 404 has returned the
\* entries of branch-x and pr-5 and nothing else.
C21_Witness ==
    \E p \in Procs :
        /\ proc[p].pc = "done"
        /\ proc[p].latestErr = "not found"
        /\ proc[p].listed # <<>>
        /\ proc[p].err = "none"
        /\ Len(proc[p].val) = 2
        /\ proc[p].val[1].type = "branch"
        /\ proc[p].val[2].type = "pr"

\* C22: checkForUpdates on a tag channel whose release is tagged with the
\* running version, with or without a leading "v", returns null and
\* records { channel, updateInfo: null }; a downloadUpdate that finds
\* this record for the current channel throws "no update available" and
\* leaves the delivery engine alone.
C22_RunningVersionIsNoUpdate ==
    [][\A p \in Procs :
         /\ (/\ proc[p].pc = "chk_await_release"
             /\ proc[p].tag \in {<<"1">>, <<"v", "1">>}
             /\ proc'[p].pc # "chk_await_release"
             /\ proc'[p].err = "none") =>
               /\ proc'[p].val = NoInfo
               /\ lastUpdateCheck'.present
               /\ lastUpdateCheck'.channel = proc[p].channel
               /\ lastUpdateCheck'.updateInfo = NoInfo
               /\ engine' = engine
         /\ (/\ proc[p].op = "download"
             /\ \/ proc[p].pc = "dl_enter"
                \/ proc[p].pc = "dl_after_chk" /\ proc[p].err = "none"
             /\ proc'[p] # proc[p]
             /\ lastUpdateCheck.present
             /\ lastUpdateCheck.channel = currentChannel
             /\ ~lastUpdateCheck.updateInfo.present) =>
               /\ proc'[p].pc = "done"
               /\ proc'[p].err = "no update available"
               /\ engine' = engine]_vars

\* C22 witness: after a check of channel v1, the running version, has
\* recorded that there is no update, a downloadUpdate that did not have
\* to check has thrown, and the engine is not downloading.
C22_Witness ==
    \E p \in Procs :
        /\ proc[p].pc = "done"
        /\ proc[p].op = "download"
        /\ ~proc[p].needed
        /\ proc[p].err = "no update available"
        /\ lastUpdateCheck.present
        /\ lastUpdateCheck.channel = <<"v", "1">>
        /\ currentChannel = <<"v", "1">>
        /\ ~lastUpdateCheck.updateInfo.present
        /\ ~engine.downloading
        /\ ~engine.downloaded

\* Where a handler waits for the engine's answer to a check.
EngineCheckAwaits ==
    {"chk_await_engine_tag", "chk_await_engine_latest",
     "rchk_await_engine_tag", "rchk_await_engine_latest",
     "startup_await_engine"}

\* C23: a downloadUpdate that waits for the engine settles only by the
\* engine's events; when the engine reports an error (of the download,
\* which then has ended without an update, or of a check that another
\* call awaits) the call rejects with the engine's error as it is; and a
\* call invokes the engine's downloadUpdate() once when it gets that
\* far, never again.
C23_EngineErrorVerbatimNoRetry ==
    [][\A p \in Procs :
         /\ proc'[p].downloads <= 1
         /\ proc'[p].pc = "dl_await" => proc'[p].downloads = 1
         /\ (proc[p].pc = "dl_await" /\ proc'[p].pc # "dl_await") =>
               /\ proc'[p].pc = "done"
               /\ proc'[p].downloads = 1
               /\ proc'[p].err \in {"none", "engine error", "check error"}
               /\ proc'[p].err = "none" =>
                     engine'.downloaded /\ ~engine'.downloading
               /\ proc'[p].err = "engine error" =>
                     engine.downloading /\ ~engine'.downloading
               /\ proc'[p].err = "check error" =>
                     \E q \in Procs \ {p} :
                         /\ proc[q].pc \in EngineCheckAwaits
                         /\ proc'[q].pc # proc[q].pc
               /\ (engine.downloading /\ ~engine'.downloading
                     /\ ~engine'.downloaded) =>
                     proc'[p].err = "engine error"]_vars

\* C23 witness: a downloadUpdate has been rejected with the engine's
\* error after one invocation of the engine's download.
C23_Witness ==
    \E p \in Procs :
        /\ proc[p].pc = "done"
        /\ proc[p].op = "download"
        /\ proc[p].err = "engine error"
        /\ proc[p].downloads = 1
        /\ ~engine.downloading
        /\ ~engine.downloaded

\* C24: on an installation where setChannel was never called, and which
\* so has no record, getChannel returns { type: "latest" }.
C24_DefaultBeforeAnySet ==
    [][\A p \in Procs :
         (/\ proc[p].pc \in {"get_enter", "get_loaded"}
          /\ proc'[p].pc \notin {"get_enter", "get_await_load", "get_loaded"}
          /\ ~history.setCalled) =>
             /\ disk = <<>>
             /\ proc'[p].err = "none"
             /\ proc'[p].val = [type |-> "latest", tag |-> <<>>]]_vars

\* C24 witness: getChannel has looked for the record, found none and
\* returned the default.
C24_Witness ==
    \E p \in Procs :
        /\ proc[p].op = "getChannel"
        /\ proc[p].pc = "done"
        /\ proc[p].val = [type |-> "latest", tag |-> <<>>]
        /\ ~history.setCalled
        /\ ~history.restarted
        /\ disk = <<>>
        /\ calls = 1

\* C25: when the last setChannel that was written stored c and the
\* application has been started again, getChannel, which then reads the
\* record, returns c.
C25_RestartReturnsStoredChannel ==
    [][\A p \in Procs :
         (/\ proc[p].pc = "get_loaded"
          /\ proc'[p].pc # "get_loaded"
          /\ history.saved.type # "null") =>
             /\ proc'[p].err = "none"
             /\ proc'[p].val = history.saved
             /\ store' = history.saved]_vars

\* C25 witness: setChannel({ type: "tag", tag: "pr-5" }) was written, the
\* application restarted, and getChannel has returned that channel.
C25_Witness ==
    \E p \in Procs :
        /\ proc[p].op = "getChannel"
        /\ proc[p].pc = "done"
        /\ history.restarted
        /\ history.saved = [type |-> "tag", tag |-> <<"p", "r", "-", "5">>]
        /\ proc[p].val = history.saved

\* C26: when setChannel(c) fails to write the record, the cache is not
\* replaced: getChannel returns afterwards what it returned before the
\* call.
C26_FailedSetKeepsCache ==
    [][\A p \in Procs :
         (proc[p].pc = "set_await_save" /\ proc'[p].err = "store failed") =>
             Readable' = proc[p].prior]_vars

\* The invariant of the type Channel: a tag channel has a tag that is not
\* empty, the latest channel has none.
WellFormedChannel(c) ==
    /\ c.type \in {"latest", "tag"}
    /\ c.type = "tag" => c.tag # <<>>
    /\ c.type = "latest" => c.tag = <<>>

\* C27: the channel the store holds in memory and the channel of the
\* record are well formed, whatever setChannel was called with.
C27_StoredChannelsAreWellFormed ==
    /\ store.type # "null" => WellFormedChannel(store)
    /\ disk # <<>> => WellFormedChannel(DecodeChannel(disk))

\* C28 as stated: when the check of the timer callback has failed, the
\* callback ends without an error, and the branches cache, the releases
\* cache and the stored channel are what they were when the timer fired.
C28_FailedAutoCheckChangesNothing ==
    [][\A p \in Procs :
         (/\ proc[p].pc = "auto_after_chk"
          /\ proc[p].err # "none"
          /\ proc'[p] # proc[p]) =>
             /\ proc'[p].pc = "done"
             /\ proc'[p].err = "none"
             /\ branchesCache' = proc[p].seen]_vars

\* C28, amended: the callback ends without an error whether its check
\* failed or not; while it runs the stored channel, its record and the
\* releases cache do not change, and the branches cache changes only by
\* taking the list of a fetch that succeeded, stamped with the time of
\* the fetch.
C28_AutoCheckFailureIsContained ==
    [][\A p \in Procs :
         (proc[p].op = "autoCheck" /\ proc[p].pc # "done") =>
             /\ (proc[p].pc = "auto_after_chk" /\ proc'[p] # proc[p]) =>
                   (proc'[p].pc = "done" /\ proc'[p].err = "none")
             /\ store' = store
             /\ disk' = disk
             /\ releasesCache' = releasesCache
             /\ \/ branchesCache' = branchesCache
                \/ /\ proc[p].pc = "gab_await_list"
                   /\ proc'[p].listed # <<>>
                   /\ branchesCache' = [present |-> TRUE,
                                        data |-> proc'[p].val,
                                        timestamp |-> now]]_vars

\* C28 witness: a check of the timer has failed after its fetch filled
\* the branches cache; the callback has ended without an error and the
\* application runs on.
C28_Witness ==
    \E p \in Procs :
        /\ proc[p].op = "autoCheck"
        /\ proc[p].pc = "done"
        /\ proc[p].checked = "failed"
        /\ proc[p].err = "none"
        /\ ~proc[p].seen.present
        /\ branchesCache.present
        /\ ~engine.quit

\* C29: a listing the user asked to refresh, made through the handler of
\* either service, does not answer from the cache: it goes on to the
\* registry although the entry is within its TTL.
C29_RefreshBypassesCache ==
    [][\A p \in Procs :
         (/\ proc[p].asked
          /\ proc[p].pc \in {"gab_enter", "lr_enter"}
          /\ proc'[p] # proc[p]) =>
             proc'[p].pc \in {"gab_await_latest", "lr_await_token"}]_vars

\* C30: each cache is one slot, empty or holding one whole entry.  The
\* branches cache changes only by being cleared or by taking, in one
\* step, the whole list a fetch built (the release entry and the entries
\* of the listing) with the time of that step; the releases cache
\* changes only by taking the body, the etag and the time of a 200
\* response in one step, or the time of a 304 response.  The time of an
\* entry is never later than the clock, and never earlier than the time
\* of the entry it replaces.
C30_CacheSlotIsWhole ==
    [][/\ branchesCache'.present => branchesCache'.timestamp <= now'
       /\ (branchesCache.present /\ branchesCache'.present) =>
             branchesCache'.timestamp >= branchesCache.timestamp
       /\ (branchesCache' # branchesCache /\ branchesCache'.present) =>
             \E p \in Procs :
                 LET expected ==
                         (IF proc[p].latest # <<>> THEN <<proc[p].latest>>
                          ELSE <<>>) \o ValidTags(proc'[p].listed)
                     data == branchesCache'.data
                 IN  /\ proc[p].pc = "gab_await_list"
                     /\ proc'[p].listed # <<>>
                     /\ branchesCache'.timestamp = now
                     /\ data = proc'[p].val
                     /\ Len(data) = Len(expected)
                     /\ \A j \in 1..Len(data) : data[j].name = expected[j]
       /\ releasesCache'.present =>
             /\ releasesCache'.fetchedAt <= now'
             /\ releasesCache'.releases # <<>>
             /\ releasesCache'.etag \in {"etag-a", "etag-b"}
             /\ releasesCache'.etag = "etag-a"
                   <=> Len(releasesCache'.releases) = 1
       /\ (releasesCache.present /\ releasesCache'.present) =>
             releasesCache'.fetchedAt >= releasesCache.fetchedAt
       /\ releasesCache' # releasesCache =>
             /\ releasesCache'.present
             /\ releasesCache'.fetchedAt = now
             /\ \E p \in Procs :
                  \/ /\ proc[p].pc = "lr_await_json"
                     /\ proc'[p].pc # "lr_await_json"
                     /\ proc'[p].val.error = "none"
                     /\ releasesCache'.releases = proc'[p].val.releases
                  \/ /\ proc[p].pc = "lr_await_fetch"
                     /\ proc'[p].pc # "lr_await_fetch"
                     /\ releasesCache.present
                     /\ releasesCache'.releases = releasesCache.releases
                     /\ releasesCache'.etag = releasesCache.etag]_vars

\* C30 witness: both slots hold an entry stored after the start, the
\* branches cache the release entry and two more, the releases cache a
\* body with its etag.
C30_Witness ==
    /\ branchesCache.present
    /\ branchesCache.timestamp > 0
    /\ Len(branchesCache.data) = 3
    /\ branchesCache.data[1].type = "release"
    /\ releasesCache.present
    /\ releasesCache.fetchedAt > branchesCache.timestamp
    /\ releasesCache.etag = "etag-b"

\* C31: a latest-release lookup that failed for another reason than 404
\* (it was rate limited) is not taken for "no stable release":
\* getAvailableBranches does not store and return a fresh list without
\* the release entry after it.
C31_RateLimitedLookupIsNotNotFound ==
    [][\A p \in Procs :
         (/\ proc[p].pc = "gab_await_list"
          /\ proc[p].latestErr \notin {"none", "not found"}
          /\ proc'[p] # proc[p]) =>
             ~(/\ proc'[p].listed # <<>>
               /\ proc'[p].err = "none"
               /\ branchesCache'.present
               /\ branchesCache'.timestamp = now
               /\ branchesCache'.data = proc'[p].val
               /\ \A j \in 1..Len(proc'[p].val) :
                    proc'[p].val[j].type # "release")]_vars

\* C32: the engine's downloadUpdate() is invoked only when the check
\* recorded for the current channel is one in which the engine's
\* checkForUpdates() returned; after a check of a tag channel in which
\* the engine threw, downloadUpdate does not get to the engine.
C32_DownloadOnlyAfterEngineCheck ==
    [][\A p \in Procs :
         (proc[p].pc = "dl_invoke" /\ proc'[p].pc = "dl_await") =>
             /\ lastUpdateCheck.present
             /\ lastUpdateCheck.channel = currentChannel
             /\ lastUpdateCheck.engineChecked]_vars

\* C33: when the packaged application starts, the engine has the
\* settings of the stored channel (downgrade allowed for a tag channel
\* and forbidden for the latest one, the repository's feed) at the
\* moment the first automatic check is issued.
C33_StartupConfiguresBeforeCheck ==
    [][\A p \in Procs :
         (/\ proc[p].pc = "startup_after_channel"
          /\ proc'[p].checked = "running") =>
             /\ engine.feed = <<>>
             /\ engine.allowDowngrade =
                  (proc[p].val.type = "tag" /\ proc[p].val.tag # <<>>)]_vars

\* C34: when checkForUpdates(channel) or switchChannel(channel) fails,
\* the current channel is the one that was selected before the call: the
\* channel of the last check that succeeded, or "latest".
C34_FailureKeepsSelectedChannel ==
    [][\A p \in Procs :
         (/\ proc[p].op \in {"check", "switch"}
          /\ proc[p].pc # "done"
          /\ proc'[p].pc = "done"
          /\ proc'[p].err # "none") =>
             currentChannel' = history.selected]_vars

\* C35: listing never changes the selected channel: no step of a
\* getAvailableBranches call (cache hit, refresh or failure) changes what
\* getCurrentChannel returns.
C35_ListingKeepsCurrentChannel ==
    [][\A p \in Procs :
         (proc[p].op = "getBranches" /\ proc'[p] # proc[p]) =>
             currentChannel' = currentChannel]_vars

\* C36: when every getChannel and setChannel call has completed, and no
\* write has failed, the channel the store keeps in memory is the channel
\* of the record on disk: a restart does not change what getChannel
\* returns.
C36_CacheEqualsRecordWhenQuiet ==
    (Quiet /\ store # NoChannel /\ ~history.saveFailed) =>
        store = LoadedOrDefault(LoadedFrom(disk))

\* C37: a downloadUpdate that waits for the engine is rejected only when
\* its own download ends with an error; the failure of a check that
\* another call makes meanwhile does not reject it.
C37_RejectedOnlyByOwnDownload ==
    [][\A p \in Procs :
         (/\ proc[p].pc = "dl_await"
          /\ proc'[p].pc # "dl_await"
          /\ proc'[p].err # "none") =>
             engine.downloading /\ ~engine'.downloading]_vars

\* C38: a step in which a refresh fails (a request of
\* getAvailableBranches throws, or the response to listReleases is an
\* error or does not arrive) leaves both cache slots as they were; a
\* call writes a slot only in the step that completes it without error.
C38_FailedRefreshKeepsCache ==
    [][\A p \in Procs :
         proc'[p] # proc[p] =>
           /\ (/\ proc[p].pc \in {"gab_await_latest", "gab_await_list",
                                   "gab_await_rl"}
               /\ proc'[p].apiErr # "none") =>
                  /\ branchesCache' = branchesCache
                  /\ releasesCache' = releasesCache
           /\ (\/ proc[p].pc = "lr_await_text"
               \/ /\ proc[p].pc = "lr_await_fetch"
                  /\ proc'[p].pc # "lr_await_json"
                  /\ \/ proc'[p].pc = "lr_await_text"
                     \/ proc'[p].val.error # "none") =>
                  /\ branchesCache' = branchesCache
                  /\ releasesCache' = releasesCache
           /\ (branchesCache' # branchesCache
                 \/ releasesCache' # releasesCache) =>
                  /\ proc'[p].pc = "done"
                  /\ proc'[p].err = "none"]_vars

\* C38 witness: getAvailableBranches has ended after its listing failed
\* while the slot held a list.
C38_Witness ==
    \E p \in Procs :
        /\ proc[p].op = "getBranches"
        /\ proc[p].pc = "done"
        /\ proc[p].apiErr # "none"
        /\ branchesCache.present
        /\ Len(branchesCache.data) > 0

\* C39: the progress callback of a downloadUpdate that has settled is no
\* longer registered: the engine never has more listeners of
\* download-progress than there are calls waiting for a download.
C39_NoProgressListenerLeft ==
    engine.progress <= Cardinality(Waiting)

\* C40: when the requests to the registry are answered and the engine
\* ends every download it starts, every downloadUpdate call resolves or
\* rejects, unless the installation quits the application first.
C40_DownloadSettles ==
    \A p \in Procs :
        (proc[p].op = "download" /\ proc[p].pc # "done")
            ~> (proc[p].pc = "done" \/ engine.quit)

\* C40 witness: two downloadUpdate calls wait for the engine at the same
\* time.
C40_Witness ==
    /\ Cardinality(Waiting) = NumProcs
    /\ ~engine.quit

====
